---- MODULE Spec2Model ----
(***************************************************************************)
(* MarketPulse: the publisher (src/src/publisher/pub_server.cpp) as a      *)
(* state machine, and its topic matching as a pure function.               *)
(*                                                                         *)
(* Strings that the code inspects character by character (topics and       *)
(* subscription patterns) are sequences of one-character strings, so that  *)
(* "trade.*" is <<"t","r","a","d","e",".","*">>.                            *)
(***************************************************************************)
EXTENDS Integers, Sequences, FiniteSets, TLC

(***************************************************************************)
(* Bounds of the model.                                                    *)
(***************************************************************************)
\* ClientConnection::MAX_QUEUE_SIZE is 10000 (pub_server.hpp:73); the model
\* keeps the comparison of send_frame and scales the capacity down.
MAX_QUEUE_SIZE == 2
\* operations begun: reads of the control sockets, publish calls, and the
\* heartbeat sweeps that find a client to send a heartbeat to
MaxOps == 3
\* length of the strings the matching specification draws
MaxStrLen == 3
\* frames the normalizer pushes onto the fan-out queue
MaxFrames == 3
\* calls of get_or_add and by_id begun
MaxRegCalls == 4
\* calls of decode_frame
MaxDecodes == 2
\* calls of pause_session, resume_session and stop_session
MaxControls == 2
\* Replayer::MAX_CONCURRENT_SESSIONS is 10 (replayer.hpp:108); the model keeps
\* the comparison of start_session and scales the limit down.
MAX_CONCURRENT_SESSIONS == 1
\* StorageConfig::index_interval is 10000 by default; the recorder of the
\* model is constructed with an index_interval in 1..MaxIndexInterval, and the
\* segments the replayer reads were written with one
MaxIndexInterval == 3
\* calls of Recorder::force_roll
MaxForceRolls == 1
\* the queues of MarketDataCore are constructed with a capacity of 100000
\* (main_core.cpp:99-101); the model scales it down
QueueCapacity == 2

\* the events the feed produces; the k-th carries the timestamp k * TickNs
MaxEvents == 4
TickNs == 400000000

\* StorageConfig::roll_bytes (2 GB), scaled: a 32-byte segment header and one
\* 68-byte frame reach roll_bytes_
roll_bytes_ == 100

(***************************************************************************)
(* Program constants.                                                      *)
(***************************************************************************)
\* write_loop: const size_t batch_size = 100
batch_size == 100

\* setup_frame_distribution: const size_t batch_size = 100
dist_batch_size == 100

\* SecurityConfig::token, handed to every ClientConnection as auth_token_
auth_token_ == "devtoken"

Clients == {1, 2}

\* The threads that call send_frame: an io_context lane running the control
\* handler, the heartbeat thread, and the threads that call publish (the
\* distributor of main_core.cpp).
PublishTasks == {"dist"}
Producers == {"io", "hb"} \cup PublishTasks

(***************************************************************************)
(* Topic matching: TopicSubscription's constructor and matches_topic.      *)
(***************************************************************************)
\* "l1.BTCUSDT", "trade.*", "trade.ETHUSDT", "l1.ETHUSDT", "trade.", "tradeXETH"
S_l1_BTCUSDT == <<"l","1",".","B","T","C","U","S","D","T">>
S_trade_star == <<"t","r","a","d","e",".","*">>
S_trade_ETHUSDT == <<"t","r","a","d","e",".","E","T","H","U","S","D","T">>
S_l1_ETHUSDT == <<"l","1",".","E","T","H","U","S","D","T">>
S_trade_dot == <<"t","r","a","d","e",".">>
S_tradeXETH == <<"t","r","a","d","e","X","E","T","H">>

\* pattern.find('*') != npos
IsWildcard(pattern) == \E i \in 1..Len(pattern) : pattern[i] = "*"

\* the while loop of the constructor: every '*' is replaced by ".*"
RECURSIVE GlobToRegex(_)
GlobToRegex(p) ==
    IF p = <<>> THEN <<>>
    ELSE IF Head(p) = "*" THEN <<".", "*">> \o GlobToRegex(Tail(p))
    ELSE <<Head(p)>> \o GlobToRegex(Tail(p))

\* One atom of an ECMAScript regular expression against one character: '.'
\* matches any character (the alphabet holds no line terminator), any other
\* character of the alphabet matches itself.
AtomMatches(a, ch) == a = "." \/ a = ch

\* std::regex_match: the whole string against the expression; the expression
\* is a sequence of atoms, each optionally followed by the quantifier '*'.
RECURSIVE RegexMatch(_, _)
RegexMatch(re, s) ==
    IF re = <<>> THEN s = <<>>
    ELSE IF Len(re) >= 2 /\ re[2] = "*"
         THEN \/ RegexMatch(SubSeq(re, 3, Len(re)), s)
              \/ /\ s # <<>>
                 /\ AtomMatches(re[1], s[1])
                 /\ RegexMatch(re, Tail(s))
         ELSE /\ s # <<>>
              /\ AtomMatches(re[1], s[1])
              /\ RegexMatch(Tail(re), Tail(s))

TopicSubscription(pattern, lossless) ==
    [pattern |-> pattern,
     is_wildcard |-> IsWildcard(pattern),
     lossless |-> lossless,
     compiled_regex |-> IF IsWildcard(pattern) THEN GlobToRegex(pattern) ELSE <<>>]

matches_topic(topic, sub) ==
    IF sub.is_wildcard
    THEN RegexMatch(sub.compiled_regex, topic)
    ELSE topic = sub.pattern

(***************************************************************************)
(* The publisher: PubServer and its ClientConnections.                     *)
(***************************************************************************)
VARIABLES
    srv,              \* PubServer: "constructed", "running" (running_), "stopped"
    clients_,         \* PubServer::clients_, in accept order
    write_thread,     \* per client: "none", "running", "joined", "failed"
    running,          \* ClientConnection::running_
    authenticated,    \* ClientConnection::authenticated_
    subscriptions,    \* ClientConnection::subscriptions_
    subs_mutex,       \* ClientConnection::subscriptions_mutex_: "free" or its holder
    send_queue,       \* ClientConnection::send_queue_: <<producer, frame>> in enqueue order
    frames_batch,     \* write_loop's frames_batch: the frames of its last bulk dequeue
    frames_dropped,   \* ClientConnection::frames_dropped_
    metrics,          \* the MetricsCollector counters the publisher increments
    ctrl,             \* per client: the control handler (process_control_message)
    hb,               \* the heartbeat thread inside heartbeat_loop
    ops,              \* operations begun so far
    pub,              \* per publishing thread: its position inside publish
    terminated,       \* the process was ended by std::terminate
    m_pattern,        \* the matching specification: pattern, topic, result
    m_topic,
    m_result

pubVars == <<srv, clients_, write_thread, running, authenticated, subscriptions,
             subs_mutex, send_queue, frames_batch, frames_dropped, metrics, ctrl,
             hb, pub, ops, terminated>>
matchVars == <<m_pattern, m_topic, m_result>>

(***************************************************************************)
(* MarketDataCore: start/stop, the normalizer's output and the             *)
(* distribution thread of setup_frame_distribution.                        *)
(***************************************************************************)
VARIABLES
    core,                       \* MarketDataCore: [pc, running_] of the main thread
    dist,                       \* distribution thread: [pc, batch]
    normalizer_to_publisher_,   \* the fan-out queue
    normalizer_to_recorder_,    \* the recorder's input queue
    dist_log                    \* [pushed, published, recorded]: what has passed where

distVars == <<core, dist, normalizer_to_publisher_, normalizer_to_recorder_, dist_log>>

(***************************************************************************)
(* SymbolRegistry and the threads that call it.                            *)
(***************************************************************************)
VARIABLES
    reg,        \* SymbolRegistry: symbol_to_id_, symbols_, next_id_, and the
                \* storage of symbols_: its capacity and how often it was reallocated
    reg_thr,    \* per calling thread: its position inside get_or_add / by_id
    reg_log     \* [calls, returned, views, order]: what the calls returned

regVars == <<reg, reg_thr, reg_log>>

(***************************************************************************)
(* A caller of encode_frame and decode_frame.                              *)
(***************************************************************************)
VARIABLES
    codec,       \* [frame, data, class, result, decodes]: the frame encoded, the
                 \* buffer handed to decode_frame, what was done to the buffer,
                 \* and what decode_frame returned
    codec_seen   \* the [class, outcome] pairs of the decodes so far

codecVars == <<codec, codec_seen>>

\* Recorder: rec is the recorder object (running_, whether mdf_file_ and
\* idx_file_ are open, current_mdf_path_, current_file_start_ts_,
\* current_file_bytes_, current_frame_count_, frames_since_last_index_),
\* rec_files the segment files of the data directory by base name,
\* input_queue_ the frames waiting for the recording thread, rec_workers the
\* event each normalizer worker holds, rec_log the events fed, the timestamps
\* in arrival order and the base names opened
VARIABLES
    rec,
    rec_files,
    input_queue_,
    rec_workers,
    rec_log

recVars == <<rec, rec_files, input_queue_, rec_workers, rec_log>>

\* The replayer (src/src/replay/replayer.cpp): `rpl' holds the sessions_
\* table, the publisher's virtual topic prefixes and the counters of the
\* calls made; rpl_call[t] is the start_session call of control thread t;
\* rpl_sess[id] is the ReplaySession with that id together with the position
\* of its playback thread and the history of what it read and published;
\* rpl_interval is the index interval the data directory was recorded with.
VARIABLES
    rpl,
    rpl_call,
    rpl_sess,
    rpl_interval

rplVars == <<rpl, rpl_call, rpl_sess, rpl_interval>>

\* what no step of the publisher changes
nonPubVars == <<matchVars, distVars, regVars, codecVars, recVars, rplVars>>
\* what the matching function leaves alone
nonMatchVars == <<pubVars, distVars, regVars, codecVars, recVars, rplVars>>
\* what no step of MarketDataCore's threads changes
nonDistVars == <<pubVars, matchVars, regVars, codecVars, recVars, rplVars>>
\* what no call of the registry changes
nonRegVars == <<pubVars, matchVars, distVars, codecVars, recVars, rplVars>>
\* what the codec leaves alone
nonCodecVars == <<pubVars, matchVars, distVars, regVars, recVars, rplVars>>
\* what the recorder and the normalizer workers leave alone
nonRecVars == <<pubVars, matchVars, distVars, regVars, codecVars, rplVars>>
\* what the replayer leaves alone
nonRplVars == <<pubVars, matchVars, distVars, regVars, codecVars, recVars>>
vars == <<pubVars, matchVars, distVars, regVars, codecVars, recVars, rplVars>>

\* QueuedFrame::topic of the frames that are not published data
CONTROL == <<"control">>
HEARTBEAT == <<"heartbeat">>

\* the patterns clients subscribe to and the topics that are published
PatWild == <<"t", ".", "*">>
PatLit == <<"l", ".", "B">>
TopicT == <<"t", ".", "E">>
TopicL == <<"l", ".", "B">>
PubTopics == {TopicT, TopicL}

\* A control message: one line read from the socket. json is FALSE for a
\* line nlohmann::json::parse rejects.
Msg(json, op, token, topics, lossless) ==
    [json |-> json, op |-> op, token |-> token, topics |-> topics, lossless |-> lossless]
NoMsg == Msg(FALSE, "", "", <<>>, FALSE)
Messages ==
    {Msg(TRUE, "auth", tok, <<>>, FALSE) : tok \in {auth_token_, "wrong"}}
    \cup {Msg(TRUE, "subscribe", "", <<PatWild>>, FALSE),
          Msg(TRUE, "subscribe", "", <<PatLit>>, TRUE),
          Msg(TRUE, "unsubscribe", "", <<PatWild>>, FALSE)}
    \cup {Msg(TRUE, "ping", "", <<>>, FALSE), Msg(FALSE, "", "", <<>>, FALSE)}

IdleCtrl == [st |-> "idle", msg |-> NoMsg, code |-> 0]
IdlePub == [st |-> "idle", topic |-> <<>>, todo |-> <<>>, pass |-> FALSE]
IdleHb == [todo |-> <<>>, pass |-> FALSE]

PubInit ==
    /\ srv = "constructed"
    /\ clients_ = <<>>
    /\ write_thread = [c \in Clients |-> "none"]
    /\ running = [c \in Clients |-> FALSE]
    /\ authenticated = [c \in Clients |-> FALSE]
    /\ subscriptions = [c \in Clients |-> <<>>]
    /\ subs_mutex = [c \in Clients |-> "free"]
    /\ send_queue = [c \in Clients |-> <<>>]
    /\ frames_batch = [c \in Clients |-> <<>>]
    /\ frames_dropped = [c \in Clients |-> 0]
    /\ metrics = [dropped_backpressure |-> 0, dropped_queue_full |-> 0, auth_failures |-> 0]
    /\ ctrl = [c \in Clients |-> IdleCtrl]
    /\ hb = IdleHb
    /\ ops = 0
    /\ pub = [t \in PublishTasks |-> IdlePub]
    /\ terminated = FALSE

MatchIdle ==
    /\ m_pattern = <<>>
    /\ m_topic = <<>>
    /\ m_result = "none"

\* MarketDataCore's constructor has run setup_components: the queues are
\* empty, running_ is false and the distribution thread has been created
DistIdle ==
    /\ core = [pc |-> "constructed", running_ |-> FALSE]
    /\ dist = [pc |-> "check", batch |-> <<>>]
    /\ normalizer_to_publisher_ = <<>>
    /\ normalizer_to_recorder_ = <<>>
    /\ dist_log = [pushed |-> 0, published |-> <<>>, recorded |-> <<>>]

\* the names registered and the threads that call the registry
RegNames == {"BTCUSDT", "ETHUSDT", "SOLUSDT"}
RegThreads == {"n1", "n2"}
IdleReg == [pc |-> "idle", name |-> "", id |-> 0, gen |-> 0]

\* SymbolRegistry::SymbolRegistry: slot 0 holds "", next_id_ is 1
RegInit ==
    /\ reg = [symbol_to_id_ |-> [n \in RegNames |-> 0],
              symbols_ |-> <<"">>,
              next_id_ |-> 1,
              capacity |-> 1,
              gen |-> 0]
    /\ reg_thr = [t \in RegThreads |-> IdleReg]
    /\ reg_log = [calls |-> 0, returned |-> {}, views |-> {}, order |-> <<>>]

\* nothing encoded or decoded yet
CodecInit ==
    /\ codec = [frame |-> "none", data |-> <<>>, class |-> "none", result |-> <<>>,
                decodes |-> 0]
    /\ codec_seen = {}

\* sizeof(MdfHeader), sizeof(IndexEntry), the nanoseconds in a second and the
\* number of frames between two header updates
MDF_HEADER_SIZE == 32
INDEX_ENTRY_SIZE == 16
NS_PER_SECOND == 1000000000
HEADER_UPDATE_FRAMES == 1000

\* PipelineConfig::normalizer_threads worker threads (two of the four)
NormWorkers == {"w1", "w2"}

\* generate_filename: data_dir_/md_%Y%m%d_%H%M%S of the UTC time
\* timestamp_ns / 1000000000; the name is given by the second it spells
generate_filename(timestamp_ns) == timestamp_ns \div NS_PER_SECOND

\* the base names the feed's timestamps can give
SegmentNames == 0..((MaxEvents * TickNs) \div NS_PER_SECOND)

\* a base name with no file in the data directory
NoFile ==
    [exists |-> FALSE, bytes |-> 0, frames |-> <<>>, stamps |-> <<>>,
     header |-> [start_ts_ns |-> 0, frame_count |-> 0],
     idx |-> <<>>, idx_bytes |-> 0, flushed |-> 0]

\* Recorder::Recorder with the given index_interval: counters zero, no file
\* open, an empty data directory
RecNew(index_interval) ==
    /\ rec = [running_ |-> FALSE, stopped |-> FALSE, open |-> FALSE,
              worker_thread_ |-> "none", needs_fsync_ |-> FALSE, fail |-> FALSE,
              index_interval_ |-> index_interval,
              current_mdf_path_ |-> 0,
              current_file_start_ts_ |-> 0,
              current_file_bytes_ |-> 0,
              current_frame_count_ |-> 0,
              frames_since_last_index_ |-> 0]
    /\ rec_files = [n \in SegmentNames |-> NoFile]
    /\ input_queue_ = <<>>
    /\ rec_workers = [w \in NormWorkers |-> <<>>]
    /\ rec_log = [fed |-> 0, arrived |-> <<>>, opened |-> <<>>, closed_dirty |-> FALSE,
                  force_rolls |-> 0, foreign_write |-> FALSE]

\* the recorder that writes an index entry for every frame
RecInit == RecNew(1)

\* control threads that call start_session, once each
RplCallers == {"c1", "c2"}
\* generate_session_id draws eight random hex digits; the model numbers the
\* sessions in the order of their creation
SessionIds == 1..Cardinality(RplCallers)

\* a control thread before its call of start_session; once it called, args
\* holds the arguments, id the session created and result the outcome
IdleCall == [pc |-> "idle", args |-> <<>>, id |-> 0, result |-> "none"]

\* a ReplaySession that was not created yet.  cursor is the number of the
\* frame the next read of mdf_file returns; thread is the position of the
\* playback thread and frame the frame it holds; reads, throttled,
\* published, ended, inserted, sent_paused and stop record what happened.
\* seeked says that seek_session moved the cursor and no frame was played
\* since; moved that it moved the cursor after the thread read a frame
\* header and before it read the body; torn that a body was read so.
NoSession ==
    [used |-> FALSE, start_ts_ns |-> 0, end_ts_ns |-> 0, rate_multiplier |-> 0,
     topics |-> <<>>, running |-> FALSE, paused |-> FALSE, mdf_path |-> "",
     cursor |-> 0, tokens |-> 0, thread |-> "none", prev_timestamp_ns |-> <<>>,
     frame |-> 0, reads |-> <<>>, throttled |-> {}, published |-> <<>>,
     ended |-> "", inserted |-> FALSE, sent_paused |-> 0, stop |-> "none",
     seeked |-> FALSE, moved |-> FALSE, torn |-> FALSE]

\* Replayer's constructor: no session
RplNew ==
    /\ rpl = [sessions_ |-> {}, prefixes |-> {}, next_id |-> 1, controls |-> 0]
    /\ rpl_call = [t \in RplCallers |-> IdleCall]
    /\ rpl_sess = [id \in SessionIds |-> NoSession]

\* the replayer where nothing is replayed
RplIdle == RplNew /\ rpl_interval = 1

Init == PubInit /\ MatchIdle /\ DistIdle /\ RegInit /\ CodecInit /\ RecInit /\ RplIdle

\* the recorder constructed with any index interval
RecSpecInit ==
    /\ PubInit /\ MatchIdle /\ DistIdle /\ RegInit /\ CodecInit /\ RplIdle
    /\ \E index_interval \in 1..MaxIndexInterval : RecNew(index_interval)

\* the replayer over a data directory recorded with any index interval
RplInit ==
    /\ PubInit /\ MatchIdle /\ DistIdle /\ RegInit /\ CodecInit /\ RecInit
    /\ RplNew
    /\ rpl_interval \in 1..MaxIndexInterval

\* send_queue_->size_approx()
QueueSize(c) == Len(send_queue[c])

\* send_frame, the loop over subscriptions_ under subscriptions_mutex_
IsLossless(subs) == \E i \in 1..Len(subs) : subs[i].lossless

\* send_frame up to the enqueue: "return" (not running or not authenticated),
\* "full" (the queue-depth check) or "enqueue"
SendCheck(run, auth, size) ==
    IF ~run \/ ~auth THEN "return"
    ELSE IF size >= MAX_QUEUE_SIZE THEN "full"
    ELSE "enqueue"

\* send_frame, the two drop branches: the counter the drop increments
MetricsAfterDrop(m, lossless) ==
    IF lossless
    THEN [m EXCEPT !.dropped_backpressure = @ + 1]
    ELSE [m EXCEPT !.dropped_queue_full = @ + 1]

QueuedFrame(kind, code, topic) == [kind |-> kind, code |-> code, topic |-> topic]

\* send_queue_->enqueue by producer thread p
Enqueued(c, p, f) == [send_queue EXCEPT ![c] = Append(@, [p |-> p, f |-> f])]

(***************************************************************************)
(* ClientConnection::stop, called from a thread other than the client's    *)
(* writer: running_.exchange(false), close the socket, join the writer.    *)
(* A second call finds running_ false and returns.                         *)
(***************************************************************************)
RunningAfterStop(S) == [c \in Clients |-> IF c \in S THEN FALSE ELSE running[c]]
ThreadAfterStop(S) ==
    [c \in Clients |-> IF c \in S /\ running[c] THEN "joined" ELSE write_thread[c]]

(***************************************************************************)
(* process_control_message.                                                *)
(***************************************************************************)
\* the ack_code the handler passes to send_control_ack
AckCode(m, auth) ==
    IF ~m.json THEN 400
    ELSE IF m.op = "auth" THEN (IF m.token = auth_token_ THEN 200 ELSE 401)
    ELSE IF m.op = "subscribe" THEN (IF auth THEN 200 ELSE 401)
    ELSE IF m.op = "unsubscribe" THEN 200
    ELSE 400

\* a handler that also calls stop() in its two "Bad Request" branches
ClosesAfterAckOr400(m) ==
    \/ m.json /\ m.op = "auth" /\ m.token # auth_token_
    \/ ~m.json
    \/ m.op \notin {"auth", "subscribe", "unsubscribe"}

\* the branch that ends in stop(): an auth op whose token differs
ClosesAfterAck(m) == m.json /\ m.op = "auth" /\ m.token # auth_token_

\* authenticated_.store(true) in the auth branch
AuthAfter(m, auth) == auth \/ (m.json /\ m.op = "auth" /\ m.token = auth_token_)

\* the subscribe branch of an authenticated client: the lock_guard on
\* subscriptions_mutex_ lives until the branch ends, send_control_ack included
AppendsSubs(m, auth) == m.json /\ m.op = "subscribe" /\ auth

\* subscriptions_.emplace_back(topic, lossless) for each topic; the
\* unsubscribe branch leaves the list as it is
SubsAfter(m, auth, subs) ==
    IF AppendsSubs(m, auth)
    THEN subs \o [i \in 1..Len(m.topics) |-> TopicSubscription(m.topics[i], m.lossless)]
    ELSE subs

\* increment_counter("publisher_auth_failures_total"), then stop()
MetricsAfterClose(m, mt) ==
    IF ClosesAfterAck(m) THEN [mt EXCEPT !.auth_failures = @ + 1] ELSE mt

\* The handler up to the queue-depth check of send_frame.
\*   "return":  send_frame returns at once, no frame is queued.
\*   "full":    the queue is full, the frame is dropped and counted. In the
\*              subscribe branch the handler thread already owns
\*              subscriptions_mutex_ and locks it again: undefined behaviour
\*              for std::mutex, which either never returns ("deadlock") or
\*              throws std::system_error, caught by the handler, whose
\*              send_control_ack(400) then finds the queue full with the
\*              mutex released.
\*   "enqueue": the check passed; CtrlAckEnqueue queues the frame.
process_control_message(c, m) ==
    /\ ~terminated
    /\ write_thread[c] # "none"
    /\ running[c]
    /\ ctrl[c].st = "idle"
    /\ ops < MaxOps
    /\ ops' = ops + 1
    /\ LET auth2 == AuthAfter(m, authenticated[c])
           subs2 == SubsAfter(m, authenticated[c], subscriptions[c])
           holds == AppendsSubs(m, authenticated[c])
           chk == SendCheck(running[c], auth2, QueueSize(c))
       IN  /\ authenticated' = [authenticated EXCEPT ![c] = auth2]
           /\ subscriptions' = [subscriptions EXCEPT ![c] = subs2]
           /\ holds => subs_mutex[c] = "free"
           /\ \/ /\ chk = "return"
                 /\ metrics' = MetricsAfterClose(m, metrics)
                 /\ running' = RunningAfterStop(IF ClosesAfterAck(m) THEN {c} ELSE {})
                 /\ write_thread' = ThreadAfterStop(IF ClosesAfterAck(m) THEN {c} ELSE {})
                 /\ UNCHANGED <<ctrl, subs_mutex, frames_dropped>>
              \/ /\ chk = "full"
                 /\ ~holds
                 /\ subs_mutex[c] = "free"
                 /\ frames_dropped' = [frames_dropped EXCEPT ![c] = @ + 1]
                 /\ metrics' = MetricsAfterClose(m, MetricsAfterDrop(metrics, IsLossless(subs2)))
                 /\ running' = RunningAfterStop(IF ClosesAfterAck(m) THEN {c} ELSE {})
                 /\ write_thread' = ThreadAfterStop(IF ClosesAfterAck(m) THEN {c} ELSE {})
                 /\ UNCHANGED <<ctrl, subs_mutex>>
              \/ /\ chk = "full"
                 /\ holds
                 /\ \/ /\ ctrl' = [ctrl EXCEPT ![c] = [st |-> "deadlock", msg |-> m, code |-> 200]]
                       /\ subs_mutex' = [subs_mutex EXCEPT ![c] = "io"]
                       /\ UNCHANGED <<frames_dropped, metrics>>
                    \/ /\ frames_dropped' = [frames_dropped EXCEPT ![c] = @ + 1]
                       /\ metrics' = MetricsAfterDrop(metrics, IsLossless(subs2))
                       /\ UNCHANGED <<ctrl, subs_mutex>>
                 /\ UNCHANGED <<running, write_thread>>
              \/ /\ chk = "enqueue"
                 /\ ctrl' = [ctrl EXCEPT ![c] = [st |-> "acking", msg |-> m,
                                                 code |-> AckCode(m, authenticated[c])]]
                 /\ subs_mutex' = [subs_mutex EXCEPT ![c] = IF holds THEN "io" ELSE @]
                 /\ UNCHANGED <<running, write_thread, frames_dropped, metrics>>
    /\ UNCHANGED <<srv, clients_, send_queue, frames_batch, hb, pub, terminated,
                   nonPubVars>>

\* send_frame from the enqueue on, and the rest of the handler: the
\* subscribe branch releases subscriptions_mutex_, the failed-auth branch
\* counts the failure and calls stop().
CtrlAckEnqueue(c) ==
    /\ ~terminated
    /\ ctrl[c].st = "acking"
    /\ send_queue' = Enqueued(c, "io", QueuedFrame("ack", ctrl[c].code, CONTROL))
    /\ subs_mutex' = [subs_mutex EXCEPT ![c] = "free"]
    /\ metrics' = MetricsAfterClose(ctrl[c].msg, metrics)
    /\ running' = RunningAfterStop(IF ClosesAfterAck(ctrl[c].msg) THEN {c} ELSE {})
    /\ write_thread' = ThreadAfterStop(IF ClosesAfterAck(ctrl[c].msg) THEN {c} ELSE {})
    /\ ctrl' = [ctrl EXCEPT ![c] = IdleCtrl]
    /\ UNCHANGED <<srv, clients_, authenticated, subscriptions, frames_batch,
                   frames_dropped, hb, pub, ops, terminated,
                   nonPubVars>>

\* read_control_messages: the read completes with an error (the peer closed
\* the connection) and the handler calls stop()
ReadError(c) ==
    /\ ~terminated
    /\ write_thread[c] # "none"
    /\ running[c]
    /\ ctrl[c].st = "idle"
    /\ ops < MaxOps
    /\ ops' = ops + 1
    /\ running' = RunningAfterStop({c})
    /\ write_thread' = ThreadAfterStop({c})
    /\ UNCHANGED <<srv, clients_, authenticated, subscriptions, subs_mutex, send_queue,
                   frames_batch, frames_dropped, metrics, ctrl, hb, pub,
                   terminated,
                   nonPubVars>>

(***************************************************************************)
(* PubServer: start, stop, accept.                                         *)
(***************************************************************************)
Range(seq) == {seq[i] : i \in 1..Len(seq)}

\* clients_mutex_ is held by the heartbeat thread from its sweep until it
\* has sent the last heartbeat
ClientsMutexFree == hb.todo = <<>>

PubStart ==
    /\ ~terminated
    /\ srv = "constructed"
    /\ srv' = "running"
    /\ UNCHANGED <<clients_, write_thread, running, authenticated, subscriptions,
                   subs_mutex, send_queue, frames_batch, frames_dropped, metrics, ctrl,
                   hb, pub, ops, terminated,
                   nonPubVars>>

\* stop(): under clients_mutex_ every client of clients_ is stopped and the
\* list cleared; then the heartbeat thread is joined
PubStop ==
    /\ ~terminated
    /\ srv = "running"
    /\ ClientsMutexFree
    /\ srv' = "stopped"
    /\ running' = RunningAfterStop(Range(clients_))
    /\ write_thread' = ThreadAfterStop(Range(clients_))
    /\ clients_' = <<>>
    /\ UNCHANGED <<authenticated, subscriptions, subs_mutex, send_queue, frames_batch,
                   frames_dropped, metrics, ctrl, hb, pub, ops, terminated,
                   nonPubVars>>

\* the async_accept handler: the new client is pushed onto clients_ and
\* started (its writer thread runs, its control messages are read).
\* Connections are numbered in accept order.
accept_connections(c) ==
    /\ ~terminated
    /\ srv = "running"
    /\ ClientsMutexFree
    /\ write_thread[c] = "none"
    /\ \A d \in Clients : d < c => write_thread[d] # "none"
    /\ clients_' = Append(clients_, c)
    /\ running' = [running EXCEPT ![c] = TRUE]
    /\ write_thread' = [write_thread EXCEPT ![c] = "running"]
    /\ UNCHANGED <<srv, authenticated, subscriptions, subs_mutex, send_queue,
                   frames_batch, frames_dropped, metrics, ctrl, hb, pub, ops,
                   terminated,
                   nonPubVars>>

(***************************************************************************)
(* heartbeat_loop: one sweep per second while the server runs.             *)
(***************************************************************************)
\* the remove_if predicate: the clients the sweep keeps
KeptBySweep(c) == authenticated[c]

RECURSIVE SelectKept(_)
SelectKept(seq) ==
    IF seq = <<>> THEN <<>>
    ELSE IF KeptBySweep(Head(seq)) THEN <<Head(seq)>> \o SelectKept(Tail(seq))
    ELSE SelectKept(Tail(seq))

\* the sweep under clients_mutex_: remove_if + erase; the heartbeats follow
heartbeat_loop ==
    /\ ~terminated
    /\ srv = "running"
    /\ ClientsMutexFree
    /\ SelectKept(clients_) # <<>> => ops < MaxOps
    /\ ops' = IF SelectKept(clients_) # <<>> THEN ops + 1 ELSE ops
    /\ clients_' = SelectKept(clients_)
    /\ hb' = [todo |-> SelectKept(clients_), pass |-> FALSE]
    /\ UNCHANGED <<srv, write_thread, running, authenticated, subscriptions,
                   subs_mutex, send_queue, frames_batch, frames_dropped, metrics, ctrl,
                   pub, terminated,
                   nonPubVars>>

\* send_heartbeat -> send_frame for the next client of the sweep, up to the
\* queue-depth check
HbSend ==
    /\ ~terminated
    /\ hb.todo # <<>>
    /\ ~hb.pass
    /\ LET c == Head(hb.todo)
           chk == IF authenticated[c]
                  THEN SendCheck(running[c], authenticated[c], QueueSize(c))
                  ELSE "return"
       IN  \/ /\ chk = "return"
              /\ hb' = [todo |-> Tail(hb.todo), pass |-> FALSE]
              /\ UNCHANGED <<frames_dropped, metrics>>
           \/ /\ chk = "full"
              /\ subs_mutex[c] = "free"
              /\ frames_dropped' = [frames_dropped EXCEPT ![c] = @ + 1]
              /\ metrics' = MetricsAfterDrop(metrics, IsLossless(subscriptions[c]))
              /\ hb' = [todo |-> Tail(hb.todo), pass |-> FALSE]
           \/ /\ chk = "enqueue"
              /\ hb' = [hb EXCEPT !.pass = TRUE]
              /\ UNCHANGED <<frames_dropped, metrics>>
    /\ UNCHANGED <<srv, clients_, write_thread, running, authenticated, subscriptions,
                   subs_mutex, send_queue, frames_batch, ctrl, pub, ops, terminated,
                   nonPubVars>>

\* send_frame from the enqueue on
HbEnqueue ==
    /\ ~terminated
    /\ hb.pass
    /\ send_queue' = Enqueued(Head(hb.todo), "hb", QueuedFrame("hb", 0, HEARTBEAT))
    /\ hb' = [todo |-> Tail(hb.todo), pass |-> FALSE]
    /\ UNCHANGED <<srv, clients_, write_thread, running, authenticated, subscriptions,
                   subs_mutex, frames_batch, frames_dropped, metrics, ctrl, pub, ops,
                   terminated,
                   nonPubVars>>

(***************************************************************************)
(* publish(topic, frame), called by the threads of PublishTasks.           *)
(***************************************************************************)
\* a publish that skips the subscription check
ShouldSendAll(c, topic) == TRUE

\* the loop over client->get_subscriptions(): should_send

ShouldSend(c, topic) ==
    \E i \in 1..Len(subscriptions[c]) : matches_topic(topic, subscriptions[c][i])

\* the thread's state once the clients in todo are left to visit; after the
\* last one publish returns
PubAfter(t, topic, todo) ==
    IF todo = <<>> THEN IdlePub
    ELSE [st |-> "visit", topic |-> topic, todo |-> todo, pass |-> FALSE]

\* publish up to the snapshot of clients_ taken under clients_mutex_
publish(t, topic) ==
    /\ ~terminated
    /\ srv = "running"
    /\ pub[t].st = "idle"
    /\ ops < MaxOps
    /\ ops' = ops + 1
    /\ ClientsMutexFree
    /\ pub' = [pub EXCEPT ![t] = PubAfter(t, topic, clients_)]
    /\ UNCHANGED <<srv, clients_, write_thread, running, authenticated, subscriptions,
                   subs_mutex, send_queue, frames_batch, frames_dropped, metrics, ctrl,
                   hb, terminated,
                   nonPubVars>>

\* one client of the snapshot: is_authenticated, should_send, and send_frame
\* up to the queue-depth check
PublishVisit(t) ==
    /\ ~terminated
    /\ pub[t].st = "visit"
    /\ ~pub[t].pass
    /\ LET c == Head(pub[t].todo)
           rest == Tail(pub[t].todo)
           chk == IF authenticated[c] /\ ShouldSend(c, pub[t].topic)
                  THEN SendCheck(running[c], authenticated[c], QueueSize(c))
                  ELSE "return"
       IN  \/ /\ chk = "return"
              /\ pub' = [pub EXCEPT ![t] = PubAfter(t, pub[t].topic, rest)]
              /\ UNCHANGED <<frames_dropped, metrics>>
           \/ /\ chk = "full"
              /\ subs_mutex[c] = "free"
              /\ frames_dropped' = [frames_dropped EXCEPT ![c] = @ + 1]
              /\ metrics' = MetricsAfterDrop(metrics, IsLossless(subscriptions[c]))
              /\ pub' = [pub EXCEPT ![t] = PubAfter(t, pub[t].topic, rest)]
           \/ /\ chk = "enqueue"
              /\ pub' = [pub EXCEPT ![t].pass = TRUE]
              /\ UNCHANGED <<frames_dropped, metrics>>
    /\ UNCHANGED <<srv, clients_, write_thread, running, authenticated, subscriptions,
                   subs_mutex, send_queue, frames_batch, ctrl, hb, ops, terminated,
                   nonPubVars>>

\* send_frame from the enqueue on
PublishEnqueue(t) ==
    /\ ~terminated
    /\ pub[t].st = "visit"
    /\ pub[t].pass
    /\ send_queue' = Enqueued(Head(pub[t].todo), t, QueuedFrame("data", 0, pub[t].topic))
    /\ pub' = [pub EXCEPT ![t] = PubAfter(t, pub[t].topic, Tail(pub[t].todo))]
    /\ UNCHANGED <<srv, clients_, write_thread, running, authenticated, subscriptions,
                   subs_mutex, frames_batch, frames_dropped, metrics, ctrl, hb, ops,
                   terminated,
                   nonPubVars>>

(***************************************************************************)
(* write_loop: the client's writer thread.                                 *)
(***************************************************************************)
\* moodycamel::ConcurrentQueue keeps one sub-queue per producer thread: the
\* frames of one producer leave in the order it enqueued them, and
\* try_dequeue_bulk walks the sub-queues in an order of its own.
ProducerOrders ==
    {o \in [1..Cardinality(Producers) -> Producers] :
        \A i, j \in 1..Cardinality(Producers) : i # j => o[i] # o[j]}

\* the frames producer p has in the queue, oldest first
RECURSIVE SubQueue(_, _)
SubQueue(q, p) ==
    IF q = <<>> THEN <<>>
    ELSE IF Head(q).p = p THEN <<Head(q).f>> \o SubQueue(Tail(q), p)
    ELSE SubQueue(Tail(q), p)

RECURSIVE Drain(_, _, _)
Drain(q, order, i) ==
    IF i > Len(order) THEN <<>> ELSE SubQueue(q, order[i]) \o Drain(q, order, i + 1)

\* the batches try_dequeue_bulk may hand to the writer
Batches(c) == {Drain(send_queue[c], o, 1) : o \in ProducerOrders}

\* one iteration: a bulk dequeue of up to batch_size frames, every frame
\* written to the socket
write_loop(c) ==
    /\ ~terminated
    /\ write_thread[c] = "running"
    /\ running[c]
    /\ QueueSize(c) > 0
    /\ QueueSize(c) <= batch_size
    /\ \E batch \in Batches(c) :
          frames_batch' = [frames_batch EXCEPT ![c] = batch]
    /\ send_queue' = [send_queue EXCEPT ![c] = <<>>]
    /\ UNCHANGED <<srv, clients_, write_thread, running, authenticated, subscriptions,
                   subs_mutex, frames_dropped, metrics, ctrl, hb, pub, ops, terminated,
                   nonPubVars>>

\* one iteration in which boost::asio::write fails: the writer calls stop()
\* on its own thread, which sets running_ false, closes the socket and then
\* joins write_thread_ from inside that thread. std::thread::join throws
\* std::system_error (resource_deadlock_would_occur), nothing catches it in
\* the thread function, and std::terminate ends the process.
WriteFailure(c) ==
    /\ ~terminated
    /\ write_thread[c] = "running"
    /\ running[c]
    /\ QueueSize(c) > 0
    /\ QueueSize(c) <= batch_size
    /\ \E batch \in Batches(c) :
          frames_batch' = [frames_batch EXCEPT ![c] = batch]
    /\ send_queue' = [send_queue EXCEPT ![c] = <<>>]
    /\ running' = [running EXCEPT ![c] = FALSE]
    /\ write_thread' = [write_thread EXCEPT ![c] = "failed"]
    /\ terminated' = TRUE
    /\ UNCHANGED <<srv, clients_, authenticated, subscriptions, subs_mutex,
                   frames_dropped, metrics, ctrl, hb, pub, ops,
                   nonPubVars>>

(***************************************************************************)
(* The specifications.                                                     *)
(***************************************************************************)
\* The strings the matching specification draws: the strings named in the
\* publisher-matching property, and every string of up to MaxStrLen
\* characters over a small alphabet.
RECURSIVE StringsUpTo(_, _)
StringsUpTo(alphabet, n) ==
    IF n = 0 THEN {<<>>}
    ELSE LET shorter == StringsUpTo(alphabet, n - 1)
         IN  shorter \cup {Append(w, ch) : w \in shorter, ch \in alphabet}

MatchPatterns ==
    {S_l1_BTCUSDT, S_trade_star} \cup StringsUpTo({"t", ".", "*"}, MaxStrLen)
MatchTopics ==
    {S_trade_ETHUSDT, S_l1_BTCUSDT, S_l1_ETHUSDT, S_trade_dot, S_tradeXETH}
    \cup StringsUpTo({"t", ".", "X"}, MaxStrLen)

MatchInit ==
    /\ PubInit
    /\ DistIdle
    /\ RegInit
    /\ CodecInit
    /\ RecInit
    /\ RplIdle
    /\ m_pattern \in MatchPatterns
    /\ m_topic \in MatchTopics
    /\ m_result = "none"

\* matches_topic(m_topic, TopicSubscription(m_pattern, false))
Match ==
    /\ m_result = "none"
    /\ m_result' = IF matches_topic(m_topic, TopicSubscription(m_pattern, FALSE))
                   THEN "match" ELSE "no match"
    /\ UNCHANGED <<m_pattern, m_topic, nonMatchVars>>

(***************************************************************************)
(* The frame codec (frame.hpp, frame.cpp, crc32.cpp). A buffer is a        *)
(* sequence of bytes 0..255; a 32-bit word of the CRC is a sequence of 32  *)
(* bits, the least significant first.                                      *)
(***************************************************************************)
\* sizeof(FrameHeader): packed u32 magic, u16 version, u16 msg_type,
\* u32 body_len, u32 crc32
FRAME_HEADER_SIZE == 16
\* FrameHeader::version
FRAME_VERSION == 1

\* an encoder that writes the most significant byte first
RECURSIVE BigEndian(_, _)
BigEndian(v, w) == IF w = 0 THEN <<>> ELSE BigEndian(v \div 256, w - 1) \o <<v % 256>>

\* an unsigned integer as w little-endian bytes
RECURSIVE LE(_, _)
LE(v, w) == IF w = 0 THEN <<>> ELSE <<v % 256>> \o LE(v \div 256, w - 1)

\* a signed integer as w little-endian bytes, two's complement
LESigned(v, w) ==
    IF v >= 0 THEN LE(v, w) ELSE [i \in 1..w |-> 255 - LE(-v - 1, w)[i]]

\* the unsigned integer w little-endian bytes hold
RECURSIVE FromLE(_)
FromLE(bytes) == IF bytes = <<>> THEN 0 ELSE Head(bytes) + 256 * FromLE(Tail(bytes))

FromLESigned(bytes) ==
    IF bytes[Len(bytes)] >= 128
    THEN -FromLE([i \in 1..Len(bytes) |-> 255 - bytes[i]]) - 1
    ELSE FromLE(bytes)

\* FrameHeader::magic 0x4D444146 as it lies in memory
MAGIC_BYTES == <<70, 65, 68, 77>>

\* the packed layout of each body: the width in bytes of every member, a
\* negative width for a signed member
BodyLayout(type) ==
    CASE type = "L1" -> <<8, 4, -8, 8, -8, 8, 8>>
      [] type = "L2" -> <<8, 4, 1, 1, 2, -8, 8, 8>>
      [] type = "Trade" -> <<8, 4, -8, 8, 1, 8>>
      [] type = "Heartbeat" -> <<8>>
      [] type = "ControlAck" -> <<4, 4>>

Abs(x) == IF x < 0 THEN -x ELSE x

RECURSIVE SumWidths(_)
SumWidths(layout) ==
    IF layout = <<>> THEN 0 ELSE Abs(Head(layout)) + SumWidths(Tail(layout))

\* sizeof(L1Body) = 52, sizeof(L2Body) = 40, sizeof(TradeBody) = 37,
\* sizeof(HbBody) = 8, sizeof(ControlAckBody) = 8
SizeOf(type) == SumWidths(BodyLayout(type))

\* enum class MessageType
MessageTypeOf(type) ==
    CASE type = "L1" -> 1 [] type = "L2" -> 2 [] type = "Trade" -> 3
      [] type = "Heartbeat" -> 4 [] type = "ControlAck" -> 5

BodyTypes == {"L1", "L2", "Trade", "Heartbeat", "ControlAck"}

\* memcpy(dst, &body, sizeof(body)): the members in declaration order
RECURSIVE BodyBytes(_, _)
BodyBytes(layout, members) ==
    IF layout = <<>> THEN <<>>
    ELSE (IF Head(layout) < 0 THEN LESigned(Head(members), -Head(layout))
          ELSE LE(Head(members), Head(layout)))
         \o BodyBytes(Tail(layout), Tail(members))

\* memcpy(&body, src, sizeof(body)): the members read back
RECURSIVE BodyMembers(_, _)
BodyMembers(layout, bytes) ==
    IF layout = <<>> THEN <<>>
    ELSE LET w == Abs(Head(layout))
         IN  <<IF Head(layout) < 0 THEN FromLESigned(SubSeq(bytes, 1, w))
               ELSE FromLE(SubSeq(bytes, 1, w))>>
             \o BodyMembers(Tail(layout), SubSeq(bytes, w + 1, Len(bytes)))

\* a 32-bit word is the pair <<high 16 bits, low 16 bits>>; XorN is the
\* exclusive or of two n-bit numbers, n a power of two, computed on the two
\* halves of the bits
RECURSIVE XorN(_, _, _)
XorN(a, b, n) ==
    IF n = 1 THEN (a + b) % 2
    ELSE XorN(a % (2 ^ (n \div 2)), b % (2 ^ (n \div 2)), n \div 2)
         + (2 ^ (n \div 2)) * XorN(a \div (2 ^ (n \div 2)), b \div (2 ^ (n \div 2)), n \div 2)
Xor32(x, y) == <<XorN(x[1], y[1], 16), XorN(x[2], y[2], 16)>>
Shr1(x) == <<x[1] \div 2, (x[2] \div 2) + (x[1] % 2) * 32768>>
Shr8(x) == <<x[1] \div 256, (x[2] \div 256) + (x[1] % 256) * 256>>

\* init_table: polynomial 0xEDB88320, eight shift steps for every index
polynomial == <<60856, 33568>>
RECURSIVE TableSteps(_, _)
TableSteps(crc, j) ==
    IF j = 0 THEN crc
    ELSE TableSteps(IF crc[2] % 2 = 1 THEN Xor32(Shr1(crc), polynomial) ELSE Shr1(crc),
                    j - 1)
crc32_table == [i \in 0..255 |-> TableSteps(<<0, i>>, 8)]

\* calculate_crc32: crc = (crc >> 8) ^ crc32_table[(crc & 0xFF) ^ byte] for
\* every byte in order, from 0xFFFFFFFF, the result complemented and returned
\* as it lies in memory. The loop over data[lo..hi] is the loop over the
\* first half, whose result c is the start of the loop over the second half.
RECURSIVE CrcLoop(_, _, _, _)
CrcLoop(crc, data, lo, hi) ==
    IF lo > hi THEN crc
    ELSE IF lo = hi
    THEN Xor32(Shr8(crc), crc32_table[XorN(crc[2] % 256, data[lo], 8)])
    ELSE CHOOSE r \in {CrcLoop(c, data, ((lo + hi) \div 2) + 1, hi) :
                           c \in {CrcLoop(crc, data, lo, (lo + hi) \div 2)}} : TRUE
calculate_crc32(data) ==
    LET crc == CrcLoop(<<65535, 65535>>, data, 1, Len(data))
    IN  LE(65535 - crc[2], 2) \o LE(65535 - crc[1], 2)

\* Frame::Frame(body): msg_type and body_len from the variant; magic and
\* version from the member initialisers; crc32 is left unset
Frame(type, members) ==
    [header |-> [magic |-> MAGIC_BYTES, version |-> FRAME_VERSION,
                 msg_type |-> MessageTypeOf(type), body_len |-> SizeOf(type),
                 crc32 |-> <<0, 0, 0, 0>>],
     body |-> [type |-> type, members |-> members]]

\* the 16 bytes of a packed FrameHeader
HeaderBytes(h) ==
    h.magic \o LE(h.version, 2) \o LE(h.msg_type, 2) \o LE(h.body_len, 4) \o h.crc32

\* encode_frame: header, then the body, the header's crc32 set to the CRC of
\* the body bytes
encode_frame(frame) ==
    LET body == BodyBytes(BodyLayout(frame.body.type), frame.body.members)
    IN  HeaderBytes([frame.header EXCEPT !.crc32 = calculate_crc32(body)]) \o body

\* the body types whose MessageType is the header's msg_type
TypesOf(msg_type) == {t \in BodyTypes : MessageTypeOf(t) = msg_type}

\* std::optional<Frame>: std::nullopt, or a frame
nullopt == [has_value |-> FALSE]
Some(frame) == [has_value |-> TRUE, header |-> frame.header, body |-> frame.body]

\* decode_frame: std::nullopt on every failure
decode_frame(data) ==
    IF Len(data) < FRAME_HEADER_SIZE THEN nullopt
    ELSE LET header == [magic |-> SubSeq(data, 1, 4),
                        version |-> FromLE(SubSeq(data, 5, 6)),
                        msg_type |-> FromLE(SubSeq(data, 7, 8)),
                        body_len |-> FromLE(SubSeq(data, 9, 12)),
                        crc32 |-> SubSeq(data, 13, 16)]
         IN  IF header.magic # MAGIC_BYTES \/ header.version # FRAME_VERSION THEN nullopt
             ELSE IF Len(data) < FRAME_HEADER_SIZE + header.body_len THEN nullopt
             ELSE LET body == SubSeq(data, FRAME_HEADER_SIZE + 1,
                                     FRAME_HEADER_SIZE + header.body_len)
                  IN  IF calculate_crc32(body) # header.crc32 THEN nullopt
                      ELSE IF TypesOf(header.msg_type) = {} THEN nullopt
                      ELSE LET type == CHOOSE t \in TypesOf(header.msg_type) : TRUE
                           IN  IF header.body_len # SizeOf(type) THEN nullopt
                               ELSE Some([header |-> header,
                                          body |-> [type |-> type,
                                                    members |-> BodyMembers(BodyLayout(type), body)]])

\* the bodies frames are built from: the members in declaration order
Bodies ==
    {<<"L1", <<1700000000, 1, 4200000, 3, 4200001, 5, 7>>>>,
     <<"L1", <<0, 0, -1, 0, -70000, 0, 0>>>>,
     <<"L2", <<1700000000, 2, 1, 2, 65535, -5, 0, 8>>>>,
     <<"Trade", <<1700000000, 2, -5, 70000, 255, 9>>>>,
     <<"Heartbeat", <<1700000001>>>>,
     <<"ControlAck", <<200, 0>>>>,
     <<"ControlAck", <<401, 0>>>>}

\* the caller builds a frame and encodes it into a buffer
CodecEncode ==
    /\ codec.class = "none"
    /\ codec.decodes < MaxDecodes
    /\ \E b \in Bodies :
          codec' = [codec EXCEPT !.frame = Frame(b[1], b[2]),
                                 !.data = encode_frame(Frame(b[1], b[2])),
                                 !.class = "intact",
                                 !.result = <<>>]
    /\ UNCHANGED <<codec_seen, nonCodecVars>>

\* only the first k bytes of the buffer have arrived
CodecTruncate ==
    /\ codec.class = "intact"
    /\ \E k \in {0, FRAME_HEADER_SIZE - 1, FRAME_HEADER_SIZE, Len(codec.data) - 1} :
          codec' = [codec EXCEPT !.data = SubSeq(codec.data, 1, k), !.class = "truncated"]
    /\ UNCHANGED <<codec_seen, nonCodecVars>>

\* one byte of the buffer is damaged: in the magic, the version, the
\* msg_type (so that body_len disagrees with the type's size), the crc32
\* or the body
CodecCorrupt ==
    /\ codec.class = "intact"
    /\ \E i \in {1, 5, 7, 13, FRAME_HEADER_SIZE + 1} :
          codec' = [codec EXCEPT !.data = [codec.data EXCEPT ![i] = (@ + 1) % 256],
                                 !.class = "corrupt"]
    /\ UNCHANGED <<codec_seen, nonCodecVars>>

\* decode_frame(data)
CodecDecode ==
    /\ codec.class \in {"intact", "truncated", "corrupt"}
    /\ codec.result = <<>>
    /\ LET r == decode_frame(codec.data)
       IN  /\ codec' = [codec EXCEPT !.result = <<r>>, !.decodes = @ + 1]
           /\ codec_seen' = codec_seen \cup
                  {[class |-> codec.class,
                    outcome |-> IF r.has_value THEN "frame" ELSE "nullopt"]}
    /\ UNCHANGED nonCodecVars

\* the caller is done with the buffer
CodecRelease ==
    /\ codec.result # <<>>
    /\ codec' = [codec EXCEPT !.frame = "none", !.data = <<>>, !.class = "none",
                              !.result = <<>>]
    /\ UNCHANGED <<codec_seen, nonCodecVars>>

CodecNext ==
    \/ CodecEncode
    \/ CodecTruncate
    \/ CodecCorrupt
    \/ CodecDecode
    \/ CodecRelease

(***************************************************************************)
(* MarketDataCore (main_core.cpp).                                         *)
(***************************************************************************)
\* the frames the normalizer builds: message type, symbol id, and the
\* number of the push as body.seq
DistFrames(n) ==
    {[msg_type |-> mt, symbol_id |-> id, seq |-> n] :
        mt \in {"l1", "trade"}, id \in {1, 2}}

\* SymbolRegistry::by_id for the symbols the feed is configured with; ""
\* for an id that is not registered
DistSymbol(id) == IF id = 1 THEN "BTCUSDT" ELSE ""

\* generate_topic: msg_type + "." + symbol, "UNKNOWN" for an empty symbol
generate_topic(frame) ==
    <<frame.msg_type, ".",
      IF DistSymbol(frame.symbol_id) = "" THEN "UNKNOWN"
      ELSE DistSymbol(frame.symbol_id)>>

\* MarketDataCore::start up to the last component's start: the normalizer
\* and the feed run from here on
CoreStartComponents ==
    /\ core.pc = "constructed"
    /\ core' = [core EXCEPT !.pc = "starting"]
    /\ UNCHANGED <<dist, normalizer_to_publisher_, normalizer_to_recorder_, dist_log,
                   nonDistVars>>

\* MarketDataCore::start, its last statement: running_ = true
CoreSetRunning ==
    /\ core.pc = "starting"
    /\ core' = [pc |-> "running", running_ |-> TRUE]
    /\ UNCHANGED <<dist, normalizer_to_publisher_, normalizer_to_recorder_, dist_log,
                   nonDistVars>>

\* MarketDataCore::stop: returns at once unless running_; stops the
\* components and sets running_ = false
CoreStop ==
    /\ core.pc = "running"
    /\ core.running_
    /\ core' = [pc |-> "stopped", running_ |-> FALSE]
    /\ UNCHANGED <<dist, normalizer_to_publisher_, normalizer_to_recorder_, dist_log,
                   nonDistVars>>

\* Normalizer::worker_thread: output_queue_->enqueue(frame)
NormalizerPush ==
    /\ core.pc \in {"starting", "running"}
    /\ dist_log.pushed < MaxFrames
    /\ \E frame \in DistFrames(dist_log.pushed + 1) :
          normalizer_to_publisher_' = Append(normalizer_to_publisher_, frame)
    /\ dist_log' = [dist_log EXCEPT !.pushed = @ + 1]
    /\ UNCHANGED <<core, dist, normalizer_to_recorder_,
                   nonDistVars>>

\* the distribution thread's loop condition: while (running_ && ...)
DistCheck ==
    /\ dist.pc = "check"
    /\ dist' = [dist EXCEPT !.pc = IF core.running_ THEN "dequeue" ELSE "exited"]
    /\ UNCHANGED <<core, normalizer_to_publisher_, normalizer_to_recorder_, dist_log,
                   nonDistVars>>

\* try_dequeue_bulk of up to batch_size frames; none: sleep and continue
DistDequeue ==
    /\ dist.pc = "dequeue"
    /\ LET n == IF Len(normalizer_to_publisher_) < dist_batch_size
                THEN Len(normalizer_to_publisher_) ELSE dist_batch_size
       IN  /\ dist' = [pc |-> IF n = 0 THEN "check" ELSE "publish",
                       batch |-> SubSeq(normalizer_to_publisher_, 1, n)]
           /\ normalizer_to_publisher_' =
                  SubSeq(normalizer_to_publisher_, n + 1, Len(normalizer_to_publisher_))
    /\ UNCHANGED <<core, normalizer_to_recorder_, dist_log,
                   nonDistVars>>

\* pub_server_->publish(generate_topic(frame), frame)
DistPublish ==
    /\ dist.pc = "publish"
    /\ dist_log' = [dist_log EXCEPT !.published =
                        Append(@, [topic |-> generate_topic(Head(dist.batch)),
                                   frame |-> Head(dist.batch)])]
    /\ dist' = [dist EXCEPT !.pc = "record"]
    /\ UNCHANGED <<core, normalizer_to_publisher_, normalizer_to_recorder_,
                   nonDistVars>>

\* normalizer_to_recorder_->enqueue(frame): ConcurrentQueue::enqueue
\* allocates a further block when the queue holds more than its initial
\* capacity, so the frame is always appended
DistRecord ==
    /\ dist.pc = "record"
    /\ normalizer_to_recorder_' = Append(normalizer_to_recorder_, Head(dist.batch))
    /\ dist_log' = [dist_log EXCEPT !.recorded = Append(@, Head(dist.batch))]
    /\ dist' = [pc |-> IF Tail(dist.batch) = <<>> THEN "check" ELSE "publish",
                batch |-> Tail(dist.batch)]
    /\ UNCHANGED <<core, normalizer_to_publisher_,
                   nonDistVars>>

\* Recorder::recording_thread: try_dequeue_bulk on its input queue (up to 100
\* frames, more than the model ever queues)
RecorderTake ==
    /\ core.pc \in {"starting", "running"}
    /\ normalizer_to_recorder_ # <<>>
    /\ normalizer_to_recorder_' = <<>>
    /\ UNCHANGED <<core, dist, normalizer_to_publisher_, dist_log,
                   nonDistVars>>

DistNext ==
    \/ CoreStartComponents
    \/ CoreSetRunning
    \/ CoreStop
    \/ NormalizerPush
    \/ DistCheck
    \/ DistDequeue
    \/ DistPublish
    \/ DistRecord
    \/ RecorderTake

(***************************************************************************)
(* SymbolRegistry (symbol_registry.cpp). Every critical section under      *)
(* mutex_ is one step; between the shared and the unique section of        *)
(* get_or_add, and after by_id has returned its string_view, other threads *)
(* run.                                                                    *)
(***************************************************************************)
\* symbol_to_id_.find(symbol): the id, 0 for end()
Find(name) == reg.symbol_to_id_[name]

\* a double check that never finds the name
FindNothing(name) == 0

\* the double check under the unique lock
FindAgain(name) == reg.symbol_to_id_[name]

\* the entry of symbols_ for an id
SymbolAt(id) == reg.symbols_[id + 1]

\* symbols_.resize(id + 1) when symbols_.size() <= id: the vector grows by
\* default-constructed strings; storage is reallocated when the capacity is
\* exceeded, to the size needed or to twice the old capacity
RECURSIVE Resized(_, _)
Resized(symbols, size) ==
    IF Len(symbols) >= size THEN symbols ELSE Resized(Append(symbols, ""), size)

NewCapacities(cap, size) ==
    IF size <= cap THEN {cap}
    ELSE {size} \cup (IF 2 * cap > size THEN {2 * cap} ELSE {})

Returned(name, id) ==
    [reg_log EXCEPT !.returned = @ \cup {[name |-> name, id |-> id]}]

\* get_or_add, the lookup under the shared lock
get_or_add(t, name) ==
    /\ reg_thr[t].pc = "idle"
    /\ reg_log.calls < MaxRegCalls
    /\ IF Find(name) # 0
       THEN /\ reg_log' = [Returned(name, Find(name)) EXCEPT !.calls = @ + 1]
            /\ UNCHANGED reg_thr
       ELSE /\ reg_log' = [reg_log EXCEPT !.calls = @ + 1]
            /\ reg_thr' = [reg_thr EXCEPT ![t] = [IdleReg EXCEPT !.pc = "unique", !.name = name]]
    /\ UNCHANGED <<reg, nonRegVars>>

\* get_or_add under the unique lock: the double check, then the insertion
GetOrAddUnique(t) ==
    /\ reg_thr[t].pc = "unique"
    /\ LET name == reg_thr[t].name
           id == reg.next_id_
           size == IF Len(reg.symbols_) <= id THEN id + 1 ELSE Len(reg.symbols_)
       IN  IF FindAgain(name) # 0
           THEN /\ reg_log' = Returned(name, FindAgain(name))
                /\ UNCHANGED reg
           ELSE /\ \E cap \in NewCapacities(reg.capacity, size) :
                      reg' = [symbol_to_id_ |-> [reg.symbol_to_id_ EXCEPT ![name] = id],
                              symbols_ |-> [Resized(reg.symbols_, size) EXCEPT ![id + 1] = name],
                              next_id_ |-> id + 1,
                              capacity |-> cap,
                              gen |-> IF cap # reg.capacity THEN reg.gen + 1 ELSE reg.gen]
                /\ reg_log' = [Returned(name, id) EXCEPT !.order = Append(@, name)]
    /\ reg_thr' = [reg_thr EXCEPT ![t] = IdleReg]
    /\ UNCHANGED nonRegVars

\* by_id under the shared lock: {} for an id out of range, else a
\* string_view of symbols_[id], which points into the storage of symbols_
\* (the names are short strings, held inside the std::string objects)
by_id(t, id) ==
    /\ reg_thr[t].pc = "idle"
    /\ reg_log.calls < MaxRegCalls
    /\ IF id >= Len(reg.symbols_)
       THEN /\ reg_log' = [reg_log EXCEPT !.calls = @ + 1,
                                          !.views = @ \cup {[id |-> id, name |-> "", got |-> ""]}]
            /\ UNCHANGED reg_thr
       ELSE /\ reg_log' = [reg_log EXCEPT !.calls = @ + 1]
            /\ reg_thr' = [reg_thr EXCEPT ![t] =
                              [pc |-> "view", name |-> SymbolAt(id), id |-> id, gen |-> reg.gen]]
    /\ UNCHANGED <<reg, nonRegVars>>

\* the caller reads the string_view by_id returned. If symbols_ was
\* reallocated since, the view points into freed storage and the read is
\* undefined: it may still find the name or find other bytes. The view of
\* the empty string of slot 0 has length 0 and nothing is read through it.
ReadView(t) ==
    /\ reg_thr[t].pc = "view"
    /\ \E got \in (IF reg_thr[t].gen = reg.gen \/ reg_thr[t].name = ""
                    THEN {SymbolAt(reg_thr[t].id)}
                    ELSE {SymbolAt(reg_thr[t].id), "freed"}) :
          reg_log' = [reg_log EXCEPT !.views =
                         @ \cup {[id |-> reg_thr[t].id, name |-> reg_thr[t].name, got |-> got]}]
    /\ reg_thr' = [reg_thr EXCEPT ![t] = IdleReg]
    /\ UNCHANGED <<reg, nonRegVars>>

\* ---------------------------------------------------------------------------
\* Recorder (recorder.cpp) and the normalizer workers that feed it
\* ---------------------------------------------------------------------------

\* encoded.size() of a frame of the given body type
EncodedSize(type) == FRAME_HEADER_SIZE + SizeOf(type)

\* write_frame: current_file_bytes_ after a frame that was not counted
TrackedUnchanged(bytes, size) == bytes

\* write_frame: current_file_bytes_ += encoded.size()
TrackedAfterWrite(bytes, size) == bytes + size

\* update_mdf_header: the header is rewritten in place with the frame count,
\* the write position restored
update_mdf_header(st) ==
    IF ~st.rec.open THEN st
    ELSE [st EXCEPT !.files[st.rec.current_mdf_path_].header =
                        [start_ts_ns |-> st.rec.current_file_start_ts_,
                         frame_count |-> st.rec.current_frame_count_]]

\* a recording thread that leaves the dirty flag as it is
NoFsync(st) == st

\* fsync_files: both streams flushed, needs_fsync_ cleared
fsync_files(st) ==
    IF ~st.rec.open THEN [st EXCEPT !.rec.needs_fsync_ = FALSE]
    ELSE [st EXCEPT !.files[st.rec.current_mdf_path_].flushed =
                        st.files[st.rec.current_mdf_path_].bytes,
                    !.rec.needs_fsync_ = FALSE]

\* close_current_files: final header update, both streams closed (closing a
\* stream writes out what it still holds)
close_current_files(st) ==
    IF ~st.rec.open THEN st
    ELSE [update_mdf_header(st) EXCEPT
            !.files[st.rec.current_mdf_path_].flushed =
                st.files[st.rec.current_mdf_path_].bytes,
            !.rec.open = FALSE]

\* open_new_files: both files are opened by std::ofstream, which creates the
\* file or truncates the file of that name; the header is written and the
\* counters are reset
open_new_files(st, timestamp_ns) ==
    LET base_path == generate_filename(timestamp_ns)
    IN  [st EXCEPT
            !.files[base_path] =
                [exists |-> TRUE, bytes |-> MDF_HEADER_SIZE, frames |-> <<>>,
                 stamps |-> <<>>,
                 header |-> [start_ts_ns |-> timestamp_ns, frame_count |-> 0],
                 idx |-> <<>>, idx_bytes |-> 0, flushed |-> 0],
            !.rec.open = TRUE,
            !.rec.fail = FALSE,
            !.rec.current_mdf_path_ = base_path,
            !.rec.current_file_start_ts_ = timestamp_ns,
            !.rec.current_file_bytes_ = MDF_HEADER_SIZE,
            !.rec.current_frame_count_ = 0,
            !.rec.frames_since_last_index_ = 0,
            !.opened = Append(@, base_path)]

\* roll_file_if_needed: a new segment the first time and when the tracked
\* byte count has reached roll_bytes_
roll_file_if_needed(st, timestamp_ns) ==
    IF ~st.rec.open \/ st.rec.current_file_bytes_ >= roll_bytes_
    THEN open_new_files(close_current_files(st), timestamp_ns)
    ELSE st

\* write_index_entry: one IndexEntry appended to the index file
write_index_entry(st, timestamp_ns, file_offset) ==
    IF ~st.rec.open THEN st
    ELSE [st EXCEPT
            !.files[st.rec.current_mdf_path_].idx =
                Append(@, [ts_ns_first |-> timestamp_ns, file_offset |-> file_offset]),
            !.files[st.rec.current_mdf_path_].idx_bytes = @ + INDEX_ENTRY_SIZE]

\* write_frame, the index entry: every index_interval_ frames, at the offset
\* before this frame
IndexStep(st, frame) ==
    IF st.rec.frames_since_last_index_ >= st.rec.index_interval_
    THEN [write_index_entry(st, frame.ts_ns,
                            st.rec.current_file_bytes_ - EncodedSize(frame.type))
             EXCEPT !.rec.frames_since_last_index_ = 0]
    ELSE st

\* write_frame, the periodic header update
HeaderStep(st) ==
    IF st.rec.current_frame_count_ % HEADER_UPDATE_FRAMES = 0
    THEN update_mdf_header(st)
    ELSE st

\* what a write to the data file's stream can do: all bytes written, none
\* written, or only the first bytes (here the frame header) written; the
\* last two leave the stream failed, and a failed stream writes nothing
WriteOutcomes == {"ok", "fail", "torn"}

\* write_frame: the encoded frame appended to the data file, the counters
\* advanced, then the index entry and the header update; when the stream
\* has failed after the write the function returns at once (st.io is what
\* the write does)
write_frame(st, frame) ==
    IF ~st.rec.open THEN st
    ELSE IF st.rec.fail \/ st.io # "ok"
    THEN [st EXCEPT
            !.files[st.rec.current_mdf_path_].bytes =
                @ + (IF ~st.rec.fail /\ st.io = "torn" THEN FRAME_HEADER_SIZE ELSE 0),
            !.rec.fail = TRUE]
    ELSE HeaderStep(IndexStep(
            [st EXCEPT
                !.files[st.rec.current_mdf_path_].bytes = @ + EncodedSize(frame.type),
                !.files[st.rec.current_mdf_path_].frames = Append(@, frame.type),
                !.files[st.rec.current_mdf_path_].stamps = Append(@, frame.ts_ns),
                !.rec.current_file_bytes_ = TrackedAfterWrite(@, EncodedSize(frame.type)),
                !.rec.current_frame_count_ = @ + 1,
                !.rec.frames_since_last_index_ = @ + 1,
                !.rec.needs_fsync_ = TRUE],
            frame))

\* Normalizer::worker_thread: a worker takes the feed's next event from the
\* raw queue; the feed stamps its events with increasing timestamps
WorkerDequeue(w) ==
    /\ rec_workers[w] = <<>>
    /\ rec_log.fed < MaxEvents
    /\ \E type \in {"L1", "Trade"} :
          rec_workers' = [rec_workers EXCEPT
                             ![w] = <<[ts_ns |-> (rec_log.fed + 1) * TickNs, type |-> type]>>]
    /\ rec_log' = [rec_log EXCEPT !.fed = @ + 1]
    /\ UNCHANGED <<rec, rec_files, input_queue_, nonRecVars>>

\* Normalizer::worker_thread: output_queue_->enqueue(normalize_event(event));
\* the distribution thread hands the frames on to the recorder's queue in the
\* order it finds them
WorkerEnqueue(w) ==
    /\ rec_workers[w] # <<>>
    /\ input_queue_' = Append(input_queue_, rec_workers[w][1])
    /\ rec_workers' = [rec_workers EXCEPT ![w] = <<>>]
    /\ rec_log' = [rec_log EXCEPT !.arrived = Append(@, rec_workers[w][1].ts_ns)]
    /\ UNCHANGED <<rec, rec_files, nonRecVars>>

\* Recorder::start: running_ set, the recording thread created
RecorderStart ==
    /\ ~rec.running_
    /\ ~rec.stopped
    /\ rec' = [rec EXCEPT !.running_ = TRUE, !.worker_thread_ = "running"]
    /\ UNCHANGED <<rec_files, input_queue_, rec_workers, rec_log, nonRecVars>>

\* recording_thread, one frame of a dequeued batch: roll_file_if_needed with
\* the frame's timestamp, then write_frame
RecordFrame ==
    /\ rec.running_
    /\ input_queue_ # <<>>
    /\ \E io \in WriteOutcomes :
          LET frame == Head(input_queue_)
              st == write_frame(roll_file_if_needed(
                        [rec |-> rec, files |-> rec_files, opened |-> rec_log.opened,
                         io |-> io],
                        frame.ts_ns), frame)
          IN  /\ rec' = st.rec
              /\ rec_files' = st.files
              /\ rec_log' = [rec_log EXCEPT !.opened = st.opened]
    /\ input_queue_' = Tail(input_queue_)
    /\ UNCHANGED <<rec_workers, nonRecVars>>

\* recording_thread, the periodic fsync: needs_fsync_ and fsync_interval_
\* elapsed since the last one
RecorderFsync ==
    /\ rec.running_
    /\ rec.needs_fsync_
    /\ LET st == fsync_files([rec |-> rec, files |-> rec_files])
       IN  /\ rec' = st.rec
           /\ rec_files' = st.files
    /\ UNCHANGED <<input_queue_, rec_workers, rec_log, nonRecVars>>

\* Recorder::stop up to the join: running_.exchange(false)
RecorderStop ==
    /\ rec.running_
    /\ rec' = [rec EXCEPT !.running_ = FALSE]
    /\ UNCHANGED <<rec_files, input_queue_, rec_workers, rec_log, nonRecVars>>

\* recording_thread leaves its loop: the final fsync if needs_fsync_
RecorderThreadExit ==
    /\ rec.worker_thread_ = "running"
    /\ ~rec.running_
    /\ LET st == IF rec.needs_fsync_
                 THEN fsync_files([rec |-> rec, files |-> rec_files])
                 ELSE [rec |-> rec, files |-> rec_files]
       IN  /\ rec' = [st.rec EXCEPT !.worker_thread_ = "exited"]
           /\ rec_files' = st.files
    /\ UNCHANGED <<input_queue_, rec_workers, rec_log, nonRecVars>>

\* Recorder::stop from the join on: the thread has ended, the files are
\* closed, stop returns
RecorderStopJoin ==
    /\ rec.worker_thread_ = "exited"
    /\ ~rec.stopped
    /\ LET st == close_current_files([rec |-> rec, files |-> rec_files])
       IN  /\ rec' = [st.rec EXCEPT !.stopped = TRUE]
           /\ rec_files' = st.files
    /\ rec_log' = [rec_log EXCEPT !.closed_dirty = rec.needs_fsync_]
    /\ UNCHANGED <<input_queue_, rec_workers, nonRecVars>>

\* Recorder::force_roll, called by a thread of its own: the store to
\* current_file_bytes_ takes no lock and the member is not atomic.  While the
\* recording thread runs the store races with that thread's accesses, which
\* is undefined: the member ends with the stored value or keeps the value
\* of the recording thread.  foreign_write records that the member was
\* written from outside the recording thread while it ran.
force_roll ==
    /\ rec_log.force_rolls < MaxForceRolls
    /\ \E bytes \in IF rec.worker_thread_ = "running"
                     THEN {roll_bytes_, rec.current_file_bytes_}
                     ELSE {roll_bytes_} :
          rec' = [rec EXCEPT !.current_file_bytes_ = bytes]
    /\ rec_log' = [rec_log EXCEPT
          !.force_rolls = @ + 1,
          !.foreign_write = @ \/ rec.worker_thread_ = "running"]
    /\ UNCHANGED <<rec_files, input_queue_, rec_workers, nonRecVars>>

RecNext ==
    \/ \E w \in NormWorkers : WorkerDequeue(w)
    \/ \E w \in NormWorkers : WorkerEnqueue(w)
    \/ RecorderStart
    \/ RecordFrame
    \/ RecorderFsync
    \/ RecorderStop
    \/ RecorderThreadExit
    \/ RecorderStopJoin


\* the recorder with a thread that calls its public force_roll
RecRollNext ==
    \/ \E w \in NormWorkers : WorkerDequeue(w)
    \/ \E w \in NormWorkers : WorkerEnqueue(w)
    \/ RecorderStart
    \/ RecordFrame
    \/ RecorderFsync
    \/ RecorderStop
    \/ RecorderThreadExit
    \/ RecorderStopJoin
    \/ force_roll

RegNext ==
    \/ \E t \in RegThreads, name \in RegNames : get_or_add(t, name)
    \/ \E t \in RegThreads : GetOrAddUnique(t)
    \/ \E t \in RegThreads, id \in 0..(Cardinality(RegNames) + 1) : by_id(t, id)
    \/ \E t \in RegThreads : ReadView(t)

(***************************************************************************)
(* The replayer (src/src/replay/replayer.cpp).  Control threads call       *)
(* start_session, pause_session, resume_session and stop_session; every    *)
(* session has a playback thread of its own.  Timestamps are nanoseconds,  *)
(* token counts are the whole tokens of the bucket, and a position in an   *)
(* .mdf file is the number of the frame that starts there.                 *)
(***************************************************************************)
\* Replayer::MAX_RATE_MULTIPLIER
MAX_RATE_MULTIPLIER == 100
\* session->tokens = 1000.0 in start_session
INITIAL_TOKENS == 1000
\* the cap of add_tokens
TOKEN_CAP == 10000
\* 1000 tokens stand for one second of recorded time (playback_thread), and
\* a nanosecond count is divided by this to give tokens at rate 1
NS_PER_TOKEN == 1000000

\* The data directory: two segments with their .idx files, each time-ordered;
\* a segment is the sequence of the ts_ns of its frames.
RplSegments ==
    [a |-> <<100000000, 200000000, 1500000000>>,
     b |-> <<1600000000, 1700000000>>]
\* the body types of those frames
RplFrameTypes ==
    [a |-> <<"L1", "Trade", "L2">>,
     b |-> <<"Trade", "L1">>]
\* the pattern "*"
S_star == <<"*">>
S_UNKNOWN == <<"U","N","K","N","O","W","N">>
\* playback_thread's base topic of a frame: the symbol id is not resolved,
\* and heartbeats and acks get the empty string
base_topic(type) ==
    IF type = "L1" THEN <<"l","1",".">> \o S_UNKNOWN
    ELSE IF type = "L2" THEN <<"l","2",".">> \o S_UNKNOWN
    ELSE IF type = "Trade" THEN <<"t","r","a","d","e",".">> \o S_UNKNOWN
    ELSE <<>>
BaseTopics == {base_topic(type) : type \in {"L1", "L2", "Trade", "Heartbeat"}}
\* get_virtual_topic for the session with id 1
get_virtual_topic(base) == <<"r","e","p","l","a","y",".","1",".">> \o base
SegmentPaths == DOMAIN RplSegments

\* The index file the recorder wrote for a segment (Recorder::write_frame):
\* one entry for every interval-th frame, with that frame's timestamp and
\* the offset at which that frame starts.
IndexEntries(frames, interval) ==
    [j \in 1..(Len(frames) \div interval) |->
        [ts_ns_first |-> frames[j * interval], file_offset |-> j * interval]]

\* the arguments control threads pass to start_session: two valid ranges
\* (the second covered by no segment) and one violation of each check
RplArgs ==
    {[from |-> 200000000, to |-> 1500000000, topics |-> <<S_star>>, rate |-> 1],
     [from |-> 1800000000, to |-> 1900000000, topics |-> <<S_star>>, rate |-> 1],
     [from |-> 1500000000, to |-> 200000000, topics |-> <<S_star>>, rate |-> 1],
     [from |-> 200000000, to |-> 1500000000, topics |-> <<S_star>>, rate |-> 0],
     [from |-> 200000000, to |-> 1500000000, topics |-> <<S_star>>, rate |-> MAX_RATE_MULTIPLIER + 1],
     [from |-> 200000000, to |-> 1500000000, topics |-> <<>>, rate |-> 1]}
\* milliseconds that pass between two calls of consume_tokens
RplElapsedMs == {0, 500}

\* the validation of start_session without its check of the topic list
ValidArgsNoTopics(a) ==
    /\ a.from < a.to
    /\ a.rate > 0 /\ a.rate <= MAX_RATE_MULTIPLIER

\* the three checks at the head of start_session
ValidArgs(a) ==
    /\ a.from < a.to
    /\ a.rate > 0 /\ a.rate <= MAX_RATE_MULTIPLIER
    /\ a.topics # <<>>

\* find_files_for_timestamp: the first md_*.mdf of the directory iteration
\* whose .idx exists; the order of a directory iteration is unspecified, so
\* any segment can be the result, and the timestamp is not looked at
find_files_for_timestamp(timestamp_ns) == SegmentPaths

\* std::lower_bound over the index entries with entry.ts_ns_first < target:
\* the position of the first entry that is not before the target
LowerBound(entries, target) ==
    IF \E i \in 1..Len(entries) : entries[i].ts_ns_first >= target
    THEN CHOOSE i \in 1..Len(entries) :
            /\ entries[i].ts_ns_first >= target
            /\ \A j \in 1..(i - 1) : entries[j].ts_ns_first < target
    ELSE Len(entries) + 1

\* seek_to_timestamp: the position the .mdf file is left at
seek_to_timestamp(entries, target_ts_ns) ==
    IF Len(entries) = 0 THEN 1
    ELSE IF LowerBound(entries, target_ts_ns) = 1 THEN 1
    ELSE entries[LowerBound(entries, target_ts_ns) - 1].file_offset

\* start_session up to the release of the first lock: the validation, then
\* the session limit under sessions_mutex_
start_session(t, args) ==
    /\ rpl_call[t].pc = "idle"
    /\ rpl_call' = [rpl_call EXCEPT ![t] =
          IF ~ValidArgs(args)
          THEN [pc |-> "returned", args |-> <<args>>, id |-> 0, result |-> "invalid_argument"]
          ELSE IF Cardinality(rpl.sessions_) >= MAX_CONCURRENT_SESSIONS
          THEN [pc |-> "returned", args |-> <<args>>, id |-> 0, result |-> "runtime_error"]
          ELSE [pc |-> "checked", args |-> <<args>>, id |-> 0, result |-> "none"]]
    /\ UNCHANGED <<rpl, rpl_sess, rpl_interval>>
    /\ UNCHANGED nonRplVars

\* start_session from find_files_for_timestamp to the creation of the
\* playback thread: the session is built, its files are opened and
\* positioned, its prefix is registered and its thread started
StartSpawn(t) ==
    /\ rpl_call[t].pc = "checked"
    /\ LET args == rpl_call[t].args[1]
           id == rpl.next_id
       IN  \E path \in find_files_for_timestamp(args.from) :
              /\ rpl_sess' = [rpl_sess EXCEPT ![id] =
                    [NoSession EXCEPT
                        !.used = TRUE,
                        !.start_ts_ns = args.from,
                        !.end_ts_ns = args.to,
                        !.rate_multiplier = args.rate,
                        !.topics = args.topics,
                        !.mdf_path = path,
                        !.cursor = seek_to_timestamp(
                                       IndexEntries(RplSegments[path], rpl_interval), args.from),
                        !.tokens = INITIAL_TOKENS,
                        !.running = TRUE,
                        !.thread = "spawned"]]
              /\ rpl' = [rpl EXCEPT !.prefixes = @ \cup {id}, !.next_id = @ + 1]
              /\ rpl_call' = [rpl_call EXCEPT ![t].pc = "spawned", ![t].id = id]
    /\ UNCHANGED rpl_interval
    /\ UNCHANGED nonRplVars

\* start_session's second critical section: the session enters sessions_
\* and the call returns its id
StartInsert(t) ==
    /\ rpl_call[t].pc = "spawned"
    /\ rpl' = [rpl EXCEPT !.sessions_ = @ \cup {rpl_call[t].id}]
    /\ rpl_sess' = [rpl_sess EXCEPT ![rpl_call[t].id].inserted = TRUE]
    /\ rpl_call' = [rpl_call EXCEPT ![t].pc = "returned", ![t].result = "ok"]
    /\ UNCHANGED rpl_interval
    /\ UNCHANGED nonRplVars

\* pause_session on a session of the table
pause_session(id) ==
    /\ id \in rpl.sessions_
    /\ rpl.controls < MaxControls
    /\ rpl' = [rpl EXCEPT !.controls = @ + 1]
    /\ rpl_sess' = [rpl_sess EXCEPT
          ![id].paused = TRUE,
          ![id].sent_paused = IF rpl_sess[id].paused THEN @ ELSE 0]
    /\ UNCHANGED <<rpl_call, rpl_interval>>
    /\ UNCHANGED nonRplVars

\* resume_session on a session of the table
resume_session(id) ==
    /\ id \in rpl.sessions_
    /\ rpl.controls < MaxControls
    /\ rpl' = [rpl EXCEPT !.controls = @ + 1]
    /\ rpl_sess' = [rpl_sess EXCEPT ![id].paused = FALSE]
    /\ UNCHANGED <<rpl_call, rpl_interval>>
    /\ UNCHANGED nonRplVars

\* stop_session up to the join: the session is erased from sessions_ under
\* the lock, then running is cleared and the thread asked to stop
stop_session(id) ==
    /\ id \in rpl.sessions_
    /\ rpl.controls < MaxControls
    /\ rpl' = [rpl EXCEPT !.controls = @ + 1, !.sessions_ = @ \ {id}]
    /\ rpl_sess' = [rpl_sess EXCEPT ![id].running = FALSE, ![id].stop = "joining"]
    /\ UNCHANGED <<rpl_call, rpl_interval>>
    /\ UNCHANGED nonRplVars

\* stop_session's join returns once the playback thread has ended
StopJoin(id) ==
    /\ rpl_sess[id].stop = "joining"
    /\ rpl_sess[id].thread = "done"
    /\ rpl_sess' = [rpl_sess EXCEPT ![id].stop = "returned"]
    /\ UNCHANGED <<rpl, rpl_call, rpl_interval>>
    /\ UNCHANGED nonRplVars

\* playback_thread's lookup of its session in sessions_
PlaybackLookup(id) ==
    /\ rpl_sess[id].thread = "spawned"
    /\ rpl_sess' = [rpl_sess EXCEPT ![id] =
          IF id \in rpl.sessions_
          THEN [@ EXCEPT !.thread = "loop"]
          ELSE [@ EXCEPT !.thread = "done", !.ended = "not_found"]]
    /\ UNCHANGED <<rpl, rpl_call, rpl_interval>>
    /\ UNCHANGED nonRplVars

\* the loop as if it did not look at paused
ReadsWhilePaused(is_running, is_paused) == is_running

\* whether an iteration of the loop goes on to read_next_frame
MayRead(is_running, is_paused) == is_running /\ ~is_paused

\* the head of playback_thread's loop: the loop ends when running is
\* cleared; a paused session sleeps (no step); otherwise the next frame is
\* read, and the loop ends at the end of the data and at the first frame
\* after end_ts_ns
PlaybackLoop(id) ==
    LET s == rpl_sess[id]
        frames == RplSegments[s.mdf_path]
    IN  /\ s.thread = "loop"
        /\ ~s.running \/ MayRead(s.running, s.paused)
        /\ rpl_sess' = [rpl_sess EXCEPT ![id] =
              IF ~s.running
              THEN [s EXCEPT !.thread = "done", !.ended = "stopped"]
              ELSE IF s.cursor > Len(frames)
              THEN [s EXCEPT !.thread = "done", !.ended = "end_of_data"]
              ELSE IF frames[s.cursor] > s.end_ts_ns
              THEN [s EXCEPT !.thread = "done", !.ended = "end_time",
                             !.cursor = @ + 1, !.reads = Append(@, s.cursor)]
              ELSE [s EXCEPT !.thread = "frame", !.frame = s.cursor,
                             !.cursor = @ + 1, !.reads = Append(@, s.cursor)]]
        /\ UNCHANGED <<rpl, rpl_call, rpl_interval>>
        /\ UNCHANGED nonRplVars

\* add_tokens after elapsed_ms milliseconds
add_tokens(tokens, elapsed_ms, rate) ==
    IF tokens + elapsed_ms * rate < TOKEN_CAP THEN tokens + elapsed_ms * rate ELSE TOKEN_CAP

\* consume_tokens: the bucket is refilled, and the tokens are taken if it
\* holds enough
consume_tokens(tokens, tokens_needed, elapsed_ms, rate) ==
    IF add_tokens(tokens, elapsed_ms, rate) >= tokens_needed
    THEN [ok |-> TRUE, tokens |-> add_tokens(tokens, elapsed_ms, rate) - tokens_needed]
    ELSE [ok |-> FALSE, tokens |-> add_tokens(tokens, elapsed_ms, rate)]

\* base_topic.find(topic_pattern) == 0
StartsWith(topic, pattern) ==
    /\ Len(pattern) <= Len(topic)
    /\ SubSeq(topic, 1, Len(pattern)) = pattern

\* the loop's pattern test on the base topic of a frame: "*", any pattern
\* that contains "*", or a pattern the base topic starts with
should_send(topics, base) ==
    \E i \in 1..Len(topics) :
        \/ topics[i] = S_star
        \/ IsWildcard(topics[i])
        \/ StartsWith(base, topics[i])

\* tokens_needed for a frame at ts_ns after one at prev_ns.  The delay is an
\* unsigned 64-bit difference: for a frame older than the previous one it
\* wraps to more than 2^63 ns, which at any rate up to MAX_RATE_MULTIPLIER
\* is more tokens than the bucket can ever hold.
TokensNeeded(ts_ns, prev_ns, rate) ==
    IF ts_ns < prev_ns THEN TOKEN_CAP + 1
    ELSE (ts_ns - prev_ns) \div (NS_PER_TOKEN * rate)

\* the rest of an iteration, with the frame in hand: the rate limit on the
\* recorded inter-arrival time, then the publication.  When the bucket holds
\* too few tokens the iteration is abandoned by `continue', and the next
\* iteration reads again.
PlaybackPublish(id, elapsed_ms) ==
    LET s == rpl_sess[id]
        ts == RplSegments[s.mdf_path][s.frame]
        sends == should_send(s.topics, base_topic(RplFrameTypes[s.mdf_path][s.frame]))
        limited == /\ s.prev_timestamp_ns # <<>>
                   /\ \/ ts < s.prev_timestamp_ns[1]
                      \/ ts - s.prev_timestamp_ns[1] > NS_PER_TOKEN * s.rate_multiplier
        taken == consume_tokens(s.tokens,
                                TokensNeeded(ts, s.prev_timestamp_ns[1], s.rate_multiplier),
                                elapsed_ms, s.rate_multiplier)
    IN  /\ s.thread = "frame"
        /\ ~limited => elapsed_ms = 0
        /\ rpl_sess' = [rpl_sess EXCEPT ![id] =
              IF limited /\ ~taken.ok
              THEN [s EXCEPT !.thread = "loop", !.tokens = taken.tokens,
                             !.throttled = @ \cup {Len(s.reads)}]
              ELSE [s EXCEPT !.thread = "loop",
                             !.tokens = IF limited THEN taken.tokens ELSE @,
                             !.prev_timestamp_ns = <<ts>>,
                             !.seeked = FALSE,
                             !.published = IF sends THEN Append(@, s.frame) ELSE @,
                             !.sent_paused = IF sends /\ s.paused THEN @ + 1 ELSE @]]
        /\ UNCHANGED <<rpl, rpl_call, rpl_interval>>
        /\ UNCHANGED nonRplVars

\* the timestamps control threads pass to seek_session
SeekTargets == {200000000, 1800000000}

\* seek_session on a session of the table: a timestamp inside the session's
\* range repositions the data file through seek_to_timestamp, under
\* sessions_mutex_, which the playback thread does not take for its reads.
\* prev_timestamp_ns is a local of playback_thread and is out of reach.
seek_session(id, ts_ns) ==
    /\ id \in rpl.sessions_
    /\ rpl.controls < MaxControls
    /\ rpl' = [rpl EXCEPT !.controls = @ + 1]
    /\ LET s == rpl_sess[id]
       IN  rpl_sess' = [rpl_sess EXCEPT ![id] =
              IF ts_ns >= s.start_ts_ns /\ ts_ns <= s.end_ts_ns
              THEN [s EXCEPT
                      !.cursor = seek_to_timestamp(
                                     IndexEntries(RplSegments[s.mdf_path], rpl_interval), ts_ns),
                      !.seeked = TRUE,
                      !.moved = (s.thread = "body")]
              ELSE s]
    /\ UNCHANGED <<rpl_call, rpl_interval>>
    /\ UNCHANGED nonRplVars

\* read_next_frame up to the frame header, at the head of the loop: the
\* loop ends when running is cleared and at the end of the data
PlaybackReadHeader(id) ==
    LET s == rpl_sess[id]
        frames == RplSegments[s.mdf_path]
    IN  /\ s.thread = "loop"
        /\ ~s.running \/ MayRead(s.running, s.paused)
        /\ rpl_sess' = [rpl_sess EXCEPT ![id] =
              IF ~s.running
              THEN [s EXCEPT !.thread = "done", !.ended = "stopped"]
              ELSE IF s.cursor > Len(frames)
              THEN [s EXCEPT !.thread = "done", !.ended = "end_of_data"]
              ELSE [s EXCEPT !.thread = "body", !.frame = s.cursor, !.moved = FALSE]]
        /\ UNCHANGED <<rpl, rpl_call, rpl_interval>>
        /\ UNCHANGED nonRplVars

\* read_next_frame from the body on: body_len bytes are read from where the
\* file stands and decoded.  When seek_session has moved the file since the
\* header was read, the bytes are not the body of that header, decode_frame
\* rejects them and the loop ends as at the end of the data; otherwise the
\* loop goes on as in PlaybackLoop.
PlaybackReadBody(id) ==
    LET s == rpl_sess[id]
        frames == RplSegments[s.mdf_path]
    IN  /\ s.thread = "body"
        /\ rpl_sess' = [rpl_sess EXCEPT ![id] =
              IF s.moved
              THEN [s EXCEPT !.thread = "done", !.ended = "undecodable", !.torn = TRUE]
              ELSE IF frames[s.frame] > s.end_ts_ns
              THEN [s EXCEPT !.thread = "done", !.ended = "end_time",
                             !.cursor = s.frame + 1, !.reads = Append(@, s.frame)]
              ELSE [s EXCEPT !.thread = "frame",
                             !.cursor = s.frame + 1, !.reads = Append(@, s.frame)]]
        /\ UNCHANGED <<rpl, rpl_call, rpl_interval>>
        /\ UNCHANGED nonRplVars

\* the patterns and base topics the filter specification draws
ReplayPatterns ==
    {S_trade_star, S_trade_dot, <<"l">>} \cup StringsUpTo({"t", ".", "*"}, MaxStrLen)

ReplayFilterInit ==
    /\ PubInit
    /\ DistIdle
    /\ RegInit
    /\ CodecInit
    /\ RecInit
    /\ RplIdle
    /\ m_pattern \in ReplayPatterns
    /\ m_topic \in BaseTopics
    /\ m_result = "none"

\* should_send for a session whose only pattern is m_pattern and a frame
\* whose base topic is m_topic
ReplayFilter ==
    /\ m_result = "none"
    /\ m_result' = IF should_send(<<m_pattern>>, m_topic) THEN "match" ELSE "no match"
    /\ UNCHANGED <<m_pattern, m_topic, nonMatchVars>>

\* the steps of the playback threads
PlaybackStep ==
    \E id \in SessionIds :
        \/ PlaybackLookup(id)
        \/ PlaybackLoop(id)
        \/ \E elapsed_ms \in RplElapsedMs : PlaybackPublish(id, elapsed_ms)

\* the steps that finish a start_session call under way
StartStep == \E t \in RplCallers : StartSpawn(t) \/ StartInsert(t)

\* the replayer with seek_session in place of pause_session and
\* resume_session, and with read_next_frame in its two reads
RplSeekNext ==
    \/ \E t \in RplCallers, args \in RplArgs : start_session(t, args)
    \/ \E t \in RplCallers : StartSpawn(t)
    \/ \E t \in RplCallers : StartInsert(t)
    \/ \E id \in SessionIds : stop_session(id)
    \/ \E id \in SessionIds : StopJoin(id)
    \/ \E id \in SessionIds, ts_ns \in SeekTargets : seek_session(id, ts_ns)
    \/ \E id \in SessionIds : PlaybackLookup(id)
    \/ \E id \in SessionIds : PlaybackReadHeader(id)
    \/ \E id \in SessionIds : PlaybackReadBody(id)
    \/ \E id \in SessionIds, elapsed_ms \in RplElapsedMs : PlaybackPublish(id, elapsed_ms)

RplNext ==
    \/ \E t \in RplCallers, args \in RplArgs : start_session(t, args)
    \/ \E t \in RplCallers : StartSpawn(t)
    \/ \E t \in RplCallers : StartInsert(t)
    \/ \E id \in SessionIds : pause_session(id)
    \/ \E id \in SessionIds : resume_session(id)
    \/ \E id \in SessionIds : stop_session(id)
    \/ \E id \in SessionIds : StopJoin(id)
    \/ \E id \in SessionIds : PlaybackLookup(id)
    \/ \E id \in SessionIds : PlaybackLoop(id)
    \/ \E id \in SessionIds, elapsed_ms \in RplElapsedMs : PlaybackPublish(id, elapsed_ms)

Next ==
    \/ PubStart
    \/ PubStop
    \/ \E c \in Clients : accept_connections(c)
    \/ \E c \in Clients, m \in Messages : process_control_message(c, m)
    \/ \E c \in Clients : CtrlAckEnqueue(c)
    \/ \E c \in Clients : ReadError(c)
    \/ heartbeat_loop
    \/ HbSend
    \/ HbEnqueue
    \/ \E t \in PublishTasks, topic \in PubTopics : publish(t, topic)
    \/ \E t \in PublishTasks : PublishVisit(t)
    \/ \E t \in PublishTasks : PublishEnqueue(t)
    \/ \E c \in Clients : write_loop(c)
    \/ \E c \in Clients : WriteFailure(c)

Spec == Init /\ [][Next]_vars

\* The matching function applied to every drawn pattern and topic.
MatchSpec == MatchInit /\ [][Match]_vars

\* MarketDataCore's main thread, the normalizer, the distribution thread and
\* the recorder's consumer.
DistSpec == Init /\ [][DistNext]_vars

\* A caller that encodes frames, has the buffer truncated or damaged, and
\* decodes it.
CodecSpec == Init /\ [][CodecNext]_vars

\* Threads calling get_or_add and by_id on one SymbolRegistry.
RegSpec == Init /\ [][RegNext]_vars

\* Every thread of the process keeps being scheduled.
\* the recorder fed by two normalizer workers
RecSpec == RecSpecInit /\ [][RecNext]_vars

\* The recorder of RecSpec and a thread that calls force_roll, which nothing
\* in the repository calls.
RecRollSpec == RecSpecInit /\ [][RecRollNext]_vars

\* Control threads starting, pausing, resuming and stopping replay sessions,
\* and the playback threads of the sessions.
RplSpec == RplInit /\ [][RplNext]_vars

\* The replayer's topic filter applied to every drawn pattern and base topic.
ReplayFilterSpec == ReplayFilterInit /\ [][ReplayFilter]_vars

\* Control threads starting, seeking and stopping replay sessions, and the
\* playback threads with the two reads of read_next_frame as separate steps.
RplSeekSpec == RplInit /\ [][RplSeekNext]_vars

\* The same, where a playback thread that can take a step takes one and a
\* start_session call under way runs to its end; nothing obliges a control
\* thread to make a call.
RplFairSpec == RplSpec /\ WF_vars(PlaybackStep) /\ WF_vars(StartStep)

FairSpec == Spec /\ WF_vars(Next)

(***************************************************************************)
(* The properties.                                                         *)
(***************************************************************************)
\* the frames of a queue, oldest first
Frames(q) == [i \in 1..Len(q) |-> q[i].f]

BadAuth(m) == m.json /\ m.op = "auth" /\ m.token # auth_token_
GoodAuth(m) == m.json /\ m.op = "auth" /\ m.token = auth_token_

\* the ack code a control message is to be answered with; an unsubscribe
\* sent before authentication is left open
ClaimedCodes(m, auth) ==
    IF GoodAuth(m) THEN {200}
    ELSE IF BadAuth(m) THEN {401}
    ELSE IF m.json /\ m.op = "subscribe" THEN (IF auth THEN {200} ELSE {401})
    ELSE IF m.json /\ m.op = "unsubscribe" THEN (IF auth THEN {200} ELSE {200, 400, 401})
    ELSE {400}

\* C1: every control message a client sends, authenticated or not, is
\* answered with one ControlAck frame queued for that client, carrying the
\* code the protocol gives for the message.
C1_EveryControlMessageAcked ==
    [][\A c \in Clients, m \in Messages :
          process_control_message(c, m) =>
              /\ ctrl'[c].st = "acking"
              /\ ctrl'[c].code \in ClaimedCodes(m, authenticated[c])]_vars

\* an unknown op, an unparsable line, or subscribe/unsubscribe before auth
ProtocolViolation(m, auth) ==
    \/ ~m.json
    \/ m.op \notin {"auth", "subscribe", "unsubscribe"}
    \/ m.op \in {"subscribe", "unsubscribe"} /\ ~auth

\* C2: the control handler closes the connection only for an auth op whose
\* token differs from the configured one; a protocol violation leaves the
\* connection open and the authenticated flag and the subscriptions as
\* they were.
C2_OnlyFailedAuthCloses ==
    [][/\ \A c \in Clients, m \in Messages :
             process_control_message(c, m) =>
                 /\ (running[c] /\ ~running'[c]) => BadAuth(m)
                 /\ ProtocolViolation(m, authenticated[c]) =>
                        /\ running'[c] = running[c]
                        /\ authenticated'[c] = authenticated[c]
                        /\ subscriptions'[c] = subscriptions[c]
       /\ \A c \in Clients :
             CtrlAckEnqueue(c) =>
                 /\ (running[c] /\ ~running'[c]) => BadAuth(ctrl[c].msg)
                 /\ ~BadAuth(ctrl[c].msg) => running'[c] = running[c]]_vars

\* C2's case: a client whose protocol violation was answered with 400 is
\* still connected
C2_Witness ==
    \E c \in Clients :
        /\ running[c]
        /\ \E i \in 1..Len(send_queue[c]) : send_queue[c][i].f.code = 400

\* the data frames a client's queue, its writer's batch and a publish that
\* has passed the queue-depth check hold for it
DataTopics(c) ==
    {send_queue[c][i].f.topic : i \in {j \in 1..Len(send_queue[c]) : send_queue[c][j].f.kind = "data"}}
    \cup {frames_batch[c][i].topic : i \in {j \in 1..Len(frames_batch[c]) : frames_batch[c][j].kind = "data"}}
    \cup {pub[t].topic : t \in {u \in PublishTasks : pub[u].pass /\ Head(pub[u].todo) = c}}

\* C3: a data frame is queued for a client only if the client is
\* authenticated and one of its subscription patterns matches the frame's
\* topic.
C3_OnlyAuthenticatedSubscribersReceive ==
    \A c \in Clients : \A topic \in DataTopics(c) :
        /\ authenticated[c]
        /\ \E i \in 1..Len(subscriptions[c]) : matches_topic(topic, subscriptions[c][i])

\* C3's case: a published frame sits on a client's queue while the client
\* holds a subscription that does not match every topic
C3_Witness ==
    \E c \in Clients :
        /\ \E i \in 1..Len(send_queue[c]) : send_queue[c][i].f.kind = "data"
        /\ \E topic \in PubTopics :
              ~\E i \in 1..Len(subscriptions[c]) : matches_topic(topic, subscriptions[c][i])

\* C4: a publish call reaches every client that is connected, authenticated
\* and holds a matching subscription, however long the client waited
\* before it authenticated.
C4_PublishReachesEverySubscriber ==
    [][\A t \in PublishTasks, topic \in PubTopics :
          publish(t, topic) =>
              \A c \in Clients :
                  (/\ running[c]
                   /\ authenticated[c]
                   /\ \E i \in 1..Len(subscriptions[c]) :
                         matches_topic(topic, subscriptions[c][i]))
                  => c \in Range(pub'[t].todo)]_vars

\* C5: the writer takes the frames of a client in the order in which they
\* were enqueued, whichever threads enqueued them.
C5_PerClientFifo ==
    [][\A c \in Clients :
          (send_queue[c] # <<>> /\ send_queue'[c] = <<>>) =>
              frames_batch'[c] = Frames(send_queue[c])]_vars

\* C6: a client's outbound queue never holds more than MAX_QUEUE_SIZE frames.
C6_QueueNeverExceedsCapacity ==
    \A c \in Clients : QueueSize(c) <= MAX_QUEUE_SIZE

\* a step in which send_frame, called for client c, finds the queue full
FindsQueueFull(c) ==
    \/ \E m \in Messages :
          /\ process_control_message(c, m)
          /\ SendCheck(running[c], AuthAfter(m, authenticated[c]), QueueSize(c)) = "full"
    \/ /\ HbSend
       /\ Head(hb.todo) = c
       /\ SendCheck(running[c], authenticated[c], QueueSize(c)) = "full"
    \/ \E t \in PublishTasks :
          /\ PublishVisit(t)
          /\ Head(pub[t].todo) = c
          /\ authenticated[c]
          /\ ShouldSend(c, pub[t].topic)
          /\ SendCheck(running[c], authenticated[c], QueueSize(c)) = "full"

\* C7: when send_frame finds the queue full the caller is not blocked, the
\* queue is unchanged, the client's dropped count rises by one and exactly
\* one counter is incremented: backpressure if a subscription of the client
\* is lossless, queue-full otherwise.
C7_FullQueueDropsAndCounts ==
    [][\A c \in Clients :
          FindsQueueFull(c) =>
              /\ ctrl'[c].st # "deadlock"
              /\ send_queue'[c] = send_queue[c]
              /\ frames_dropped'[c] = frames_dropped[c] + 1
              /\ IF IsLossless(subscriptions'[c])
                 THEN /\ metrics'.dropped_backpressure = metrics.dropped_backpressure + 1
                      /\ metrics'.dropped_queue_full = metrics.dropped_queue_full
                 ELSE /\ metrics'.dropped_queue_full = metrics.dropped_queue_full + 1
                      /\ metrics'.dropped_backpressure = metrics.dropped_backpressure]_vars

\* C8: after a socket-write failure in its writer the client is closed and
\* eventually gone from clients_, so that publish and the heartbeat sweep
\* no longer visit it.
C8_WriteFailureReleasesClient ==
    \A c \in Clients :
        (write_thread[c] = "failed") ~> (~running[c] /\ c \notin Range(clients_))

\* C9: once an authenticated client's unsubscribe is acknowledged with 200,
\* none of the patterns it names is left in the client's subscriptions.
C9_UnsubscribeRemovesPatterns ==
    [][\A c \in Clients :
          (/\ CtrlAckEnqueue(c)
           /\ ctrl[c].msg.op = "unsubscribe"
           /\ ctrl[c].code = 200)
          => \A i \in 1..Len(subscriptions'[c]) :
                 subscriptions'[c][i].pattern \notin Range(ctrl[c].msg.topics)]_vars

\* the glob reference: every '*' stands for a non-empty string, every other
\* character for itself
RECURSIVE GlobMatch(_, _)
GlobMatch(p, s) ==
    IF p = <<>> THEN s = <<>>
    ELSE IF Head(p) = "*"
         THEN \E k \in 1..Len(s) : GlobMatch(Tail(p), SubSeq(s, k + 1, Len(s)))
         ELSE s # <<>> /\ Head(p) = Head(s) /\ GlobMatch(Tail(p), Tail(s))

\* C10: matches_topic agrees with the glob reference on every pattern and
\* topic.
C10_MatchingEqualsGlob ==
    m_result # "none" => ((m_result = "match") <=> GlobMatch(m_pattern, m_topic))

\* C11: the distribution thread leaves its loop only once the system has been
\* stopped, whenever its first loop check runs relative to
\* MarketDataCore::start(), so that it drains every frame pushed.
C11_DistributorRunsUntilStopped ==
    dist.pc = "exited" => core.pc = "stopped"

\* C12: the recorder's input queue never holds more frames than its
\* capacity, however slow the recorder is.
C12_RecorderQueueBounded ==
    Len(normalizer_to_recorder_) <= QueueCapacity

\* C13: get_or_add returns the same id for a name on every call, and by_id
\* of an id hands its caller the name registered under it (the empty name
\* for slot 0 and for an id out of range).
C13_GetOrAddStableAndReversible ==
    /\ \A r1, r2 \in reg_log.returned : r1.name = r2.name => r1.id = r2.id
    /\ \A r \in reg_log.returned : SymbolAt(r.id) = r.name
    /\ \A v \in reg_log.views : v.got = v.name

\* C14: the ids handed out for n distinct names are exactly 1..n, in the
\* order in which the names were first registered: none is 0, none is
\* shared, none is skipped.
C14_IdsDenseInFirstSeenOrder ==
    LET n == Len(reg_log.order)
    IN  /\ reg.next_id_ = n + 1
        /\ Len(reg.symbols_) = n + 1
        /\ \A i \in 1..n : /\ SymbolAt(i) = reg_log.order[i]
                            /\ Find(reg_log.order[i]) = i
        /\ \A i, j \in 1..n : reg_log.order[i] = reg_log.order[j] => i = j
        /\ \A r \in reg_log.returned : r.id \in 1..n /\ reg_log.order[r.id] = r.name
        /\ {r.id : r \in reg_log.returned} = 1..n

\* C14's case: two names are registered and a thread that missed a name
\* under the shared lock waits for the unique lock after another thread
\* has added that name
C14_Witness ==
    /\ Len(reg_log.order) >= 2
    /\ \E t \in RegThreads : reg_thr[t].pc = "unique" /\ Find(reg_thr[t].name) # 0

\* C15: decoding the encoding of a frame built from a body gives a frame with
\* the same body, whose header has the magic, version 1, the variant's
\* msg_type, its fixed size as body_len, and the CRC32 of the body bytes.
C15_EncodeDecodeRoundTrip ==
    (codec.class = "intact" /\ codec.result # <<>>) =>
        /\ codec.result[1].has_value
        /\ codec.result[1].body = codec.frame.body
        /\ codec.result[1].header.magic = MAGIC_BYTES
        /\ codec.result[1].header.version = 1
        /\ codec.result[1].header.msg_type = MessageTypeOf(codec.frame.body.type)
        /\ codec.result[1].header.body_len = SizeOf(codec.frame.body.type)
        /\ codec.result[1].header.body_len = Len(codec.data) - FRAME_HEADER_SIZE
        /\ codec.result[1].header.crc32 =
              calculate_crc32(SubSeq(codec.data, FRAME_HEADER_SIZE + 1, Len(codec.data)))

\* C15's case: a frame with a negative member went through encode_frame and
\* decode_frame
C15_Witness ==
    /\ codec.class = "intact"
    /\ codec.result # <<>>
    /\ codec.result[1].has_value
    /\ codec.frame.body.type = "Trade"
    /\ codec.result[1].body.members[3] < 0

\* C16: a truncated buffer and a corrupt buffer give different results, so
\* that the caller can tell "need more bytes" from "corrupt".
C16_TruncatedDistinctFromCorrupt ==
    \A a, b \in codec_seen :
        (a.class = "truncated" /\ b.class = "corrupt") => a.outcome # b.outcome

\* the timestamps of the frames arrived in strictly increasing order
RECURSIVE StrictlyIncreasing(_)
StrictlyIncreasing(seq) ==
    Len(seq) < 2 \/ (seq[1] < seq[2] /\ StrictlyIncreasing(Tail(seq)))

\* C17: given frames whose timestamps strictly increase, no two segments
\* opened during one recorder run share a filename, also when two rolls fall
\* in the same UTC second.
C17_SegmentNamesDistinct ==
    StrictlyIncreasing(rec_log.arrived) =>
        \A i, j \in 1..Len(rec_log.opened) :
            i # j => rec_log.opened[i] # rec_log.opened[j]

\* C18: every segment data file, header included, is at most roll_bytes_
\* long (a header and one encoded frame fit within roll_bytes_).
C18_SegmentWithinRollBytes ==
    (\A type \in {"L1", "Trade"} : MDF_HEADER_SIZE + EncodedSize(type) <= roll_bytes_) =>
        \A n \in SegmentNames : rec_files[n].exists => rec_files[n].bytes <= roll_bytes_

\* the encoded sizes of the frames of the given types, added up
RECURSIVE SumSizes(_)
SumSizes(types) ==
    IF types = <<>> THEN 0 ELSE EncodedSize(Head(types)) + SumSizes(Tail(types))

C20_IndexEntriesOrdered ==
    \A n \in SegmentNames :
        \A i \in 1..(Len(rec_files[n].idx) - 1) :
            /\ rec_files[n].idx[i].ts_ns_first <= rec_files[n].idx[i + 1].ts_ns_first
            /\ rec_files[n].idx[i].file_offset < rec_files[n].idx[i + 1].file_offset

C22_FailedWriteClosesSegment ==
    rec.fail => ~rec.open

\* the arguments the contract of start says are refused
RefusedArgs(a) == a.from >= a.to \/ a.rate <= 0 \/ a.rate > 100 \/ a.topics = <<>>

\* C23: a start_session call with from >= to, rate <= 0, rate > 100 or an
\* empty topic list returns a validation error in the step that makes the
\* call and changes nothing: the sessions table, the sessions and their
\* playback threads, and the virtual topic prefixes stay as they were.
C23_InvalidStartChangesNothing ==
    [][\A t \in RplCallers :
          (/\ rpl_call[t].pc = "idle"
           /\ rpl_call'[t].pc # "idle"
           /\ RefusedArgs(rpl_call'[t].args[1]))
          => /\ rpl_call'[t].pc = "returned"
             /\ rpl_call'[t].result = "invalid_argument"
             /\ rpl' = rpl
             /\ rpl_sess' = rpl_sess]_vars

\* a call with an empty topic list was refused while another session runs
C23_Witness ==
    \E t \in RplCallers :
        /\ rpl_call[t].result = "invalid_argument"
        /\ rpl_call[t].args[1].topics = <<>>
        /\ rpl.sessions_ # {}

\* C24: the sessions table never holds more than MAX_CONCURRENT_SESSIONS
\* sessions, whatever the interleaving of the start_session calls.
C24_SessionLimitHolds == Cardinality(rpl.sessions_) <= MAX_CONCURRENT_SESSIONS

\* C25: once the playback thread of a session has ended at the end of the
\* data or at the first frame after end_ts_ns, the session leaves the
\* sessions table without any stop_session call.
C25_FinishedSessionDestroyed ==
    \A id \in SessionIds :
        (rpl_sess[id].thread = "done" /\ rpl_sess[id].ended \in {"end_of_data", "end_time"})
            ~> (id \notin rpl.sessions_)

\* the positions of the frames of a segment with from <= ts_ns <= to, in
\* file order
PositionsInRange(frames, from, to) ==
    SelectSeq([k \in 1..Len(frames) |-> k],
              LAMBDA k : from <= frames[k] /\ frames[k] <= to)

\* a segment contains a timestamp when it lies between the timestamps of its
\* first and of its last frame
Covers(frames, ts_ns) == frames[1] <= ts_ns /\ ts_ns <= frames[Len(frames)]

\* C26: a session over a segment that contains start_ts_ns, whose patterns
\* match everything and whose playback ran to the end of the data or of the
\* range, has published exactly the frames of the segment with
\* start_ts_ns <= ts_ns <= end_ts_ns, each once and in file order.
C26_PublishesExactlyTheRange ==
    \A id \in SessionIds :
        (/\ rpl_sess[id].thread = "done"
         /\ rpl_sess[id].ended \in {"end_of_data", "end_time"}
         /\ \A base \in BaseTopics : should_send(rpl_sess[id].topics, base)
         /\ Covers(RplSegments[rpl_sess[id].mdf_path], rpl_sess[id].start_ts_ns))
        => rpl_sess[id].published =
              PositionsInRange(RplSegments[rpl_sess[id].mdf_path],
                               rpl_sess[id].start_ts_ns, rpl_sess[id].end_ts_ns)

\* C27: when the bucket held too few tokens for the frame read last, the
\* frame cursor has not advanced: the next read returns that frame again.
C27_ThrottleKeepsCursor ==
    \A id \in SessionIds :
        (rpl_sess[id].thread = "loop" /\ Len(rpl_sess[id].reads) \in rpl_sess[id].throttled)
        => rpl_sess[id].cursor = rpl_sess[id].reads[Len(rpl_sess[id].reads)]

C29_StopJoinsBeforeUnregistering ==
    \A id \in SessionIds :
        (rpl_sess[id].inserted /\ id \notin rpl.sessions_) => rpl_sess[id].thread = "done"

\* C30: the segment a started session has opened contains start_ts_ns
\* between the timestamps of its first and of its last frame.
C30_StartOpensCoveringSegment ==
    \A id \in SessionIds :
        rpl_sess[id].used =>
            Covers(RplSegments[rpl_sess[id].mdf_path], rpl_sess[id].start_ts_ns)

\* C31: the first frame ever enqueued on a client's outbound queue is the
\* ControlAck 200 of its auth op.  Nothing is enqueued for a client that is
\* not authenticated, and until the writer's first bulk dequeue the queue
\* holds every frame in the order of the enqueues, so the frame at its head
\* is the first frame after the authentication.
C31_AuthAckFirst ==
    \A c \in Clients :
        (frames_batch[c] = <<>> /\ send_queue[c] # <<>>)
        => /\ send_queue[c][1].f.kind = "ack"
           /\ send_queue[c][1].f.code = 200

\* the offset at which the k-th frame of a data file starts
FrameOffset(types, k) == MDF_HEADER_SIZE + SumSizes(SubSeq(types, 1, k - 1))

\* C32: every index file holds one entry per index_interval frames of its
\* segment, each entry holds the timestamp of a frame of the segment and the
\* offset at which that frame starts, and the first entry holds the
\* timestamp of the segment's first frame and the offset 32, just past the
\* segment header.
C32_IndexEntriesPerInterval ==
    \A n \in SegmentNames :
        LET f == rec_files[n]
        IN  /\ Len(f.idx) = Len(f.frames) \div rec.index_interval_
            /\ \A i \in 1..Len(f.idx) :
                  \E k \in 1..Len(f.frames) :
                      /\ f.idx[i].ts_ns_first = f.stamps[k]
                      /\ f.idx[i].file_offset = FrameOffset(f.frames, k)
            /\ f.idx # <<>> =>
                  /\ f.idx[1].file_offset = 32
                  /\ f.idx[1].ts_ns_first = f.stamps[1]

\* C33: while the recording thread runs, no other thread writes the state
\* of the current segment (here the tracked byte count).
C33_SegmentStateOwnedByWorker == ~rec_log.foreign_write

\* C34: after seek_session has repositioned a session and until the next
\* frame is played, the previous-timestamp watermark is empty, so that frame
\* is paced like the first frame of the session.
C34_SeekResetsWatermark ==
    \A id \in SessionIds :
        rpl_sess[id].seeked => rpl_sess[id].prev_timestamp_ns = <<>>

\* C40: the data file of a session is never repositioned between the
\* playback thread's read of a frame header and its read of that frame's
\* body: no body is read from a position seek_session has set in between.
C40_SeekExcludesRead ==
    \A id \in SessionIds : ~rpl_sess[id].moved /\ ~rpl_sess[id].torn

\* C36: a frame the replayer's filter lets through has a topic that matches
\* the session's pattern under the publisher's matching, be it the virtual
\* topic replay.<id>.<msgtype>.<symbol> or its base topic.
C36_ReplayFilterIsGlob ==
    m_result = "match" =>
        \/ matches_topic(get_virtual_topic(m_topic), TopicSubscription(m_pattern, FALSE))
        \/ matches_topic(m_topic, TopicSubscription(m_pattern, FALSE))


\* the position of the last index entry that is not after the target, or
\* the start of the data when every entry is after it
LastAtOrBefore(entries, target) ==
    IF \E i \in 1..Len(entries) : entries[i].ts_ns_first <= target
    THEN entries[CHOOSE i \in 1..Len(entries) :
                    /\ entries[i].ts_ns_first <= target
                    /\ \A j \in (i + 1)..Len(entries) : entries[j].ts_ns_first > target].file_offset
    ELSE 1

\* C35: when start_session has positioned a session's data file and its
\* playback thread has not yet read, the file stands at the offset of the
\* last index entry whose timestamp is at or before the start of the range
\* (an entry with exactly that timestamp included), or at the first frame
\* when there is no such entry.
C35_SeekToLastEntryAtOrBefore ==
    \A id \in SessionIds :
        (rpl_sess[id].used /\ rpl_sess[id].thread = "spawned")
        => rpl_sess[id].cursor =
              LastAtOrBefore(IndexEntries(RplSegments[rpl_sess[id].mdf_path], rpl_interval),
                             rpl_sess[id].start_ts_ns)

\* C39: a session whose id start_session has returned is not one whose
\* playback thread ended at its lookup because the session was not yet in
\* the sessions table.
C39_ReturnedSessionIsPlayed ==
    \A t \in RplCallers :
        rpl_call[t].result = "ok"
        => rpl_sess[rpl_call[t].id].ended # "not_found"


\* C38: publish reads a client's subscription list only while no other
\* thread is inside that client's subscriptions_mutex_: a step of publish
\* that iterates the list of an authenticated client is never taken while
\* the client's subscribe handler holds the mutex for its appends.
C38_SubscriptionsReadUnderMutex ==
    [][\A t \in PublishTasks :
          (/\ PublishVisit(t)
           /\ authenticated[Head(pub[t].todo)])
          => subs_mutex[Head(pub[t].todo)] = "free"]_vars


\* C37: a stop() that a client's writer thread calls on itself after a
\* socket-write error returns: the writer is eventually joined and gone,
\* and the process is still alive.
C37_StopFromWriterReturns ==
    \A c \in Clients :
        (write_thread[c] = "failed") ~> (write_thread[c] = "none" /\ ~terminated)

====
